---- MODULE Spec2Model ----
(***************************************************************************)
(* Notebook -> MDX conversion pipeline of wherobots-examples.              *)
(*                                                                         *)
(* Two converters live in the repository:                                  *)
(*   A = .github/workflows/scripts/notebook_to_mdx.py                      *)
(*   B = .github/workflows/scripts/convert_notebook_to_mdx.py              *)
(*                                                                         *)
(* Text is a sequence of one-character strings.  Every regular expression  *)
(* of the source is translated into a matcher that follows Python's        *)
(* backtracking order (greedy / lazy quantifiers, leftmost match,          *)
(* non-overlapping substitution).                                          *)
(***************************************************************************)
EXTENDS Integers, Sequences, FiniteSets, TLC

(***************************************************************************)
(* Strings                                                                 *)
(***************************************************************************)

\* Body applied to a value that is computed once, as an assignment to a
\* local variable is.
With(value, Body(_)) == Body(value)

\* The text of a literal, one character per element.
Chars(str) == [i \in 1..Len(str) |-> SubSeq(str, i, i)]

\* The backquote character (a TLA+ string cannot hold it).
BQ == "<backquote>"

\* Python's \s and str.strip() whitespace, restricted to the ASCII members.
IsSpace(c) == c \in {" ", "\t", "\n", "\r", "\f"}

UpperChars == Chars("ABCDEFGHIJKLMNOPQRSTUVWXYZ")

LowerChars == Chars("abcdefghijklmnopqrstuvwxyz")

IsDigit(c) == c \in {"0", "1", "2", "3", "4", "5", "6", "7", "8", "9"}

IsUpper(c) == \E i \in DOMAIN UpperChars : UpperChars[i] = c

IsLower(c) == \E i \in DOMAIN LowerChars : LowerChars[i] = c

\* str.lower() on one character.
LowerChar(c) ==
  IF IsUpper(c)
  THEN LowerChars[CHOOSE i \in DOMAIN UpperChars : UpperChars[i] = c]
  ELSE c

\* str.lower()
Lower(s) == [i \in 1..Len(s) |-> LowerChar(s[i])]

\* s[i:j] of Python with 1-based inclusive bounds; empty when j < i.
Slice(s, i, j) == IF j < i THEN <<>> ELSE SubSeq(s, i, j)

\* s[i:] of Python, 1-based.
From(s, i) == Slice(s, i, Len(s))

\* True when the characters of p stand in s from position i on.
StartsAt(s, i, p) ==
  /\ i >= 1
  /\ i + Len(p) - 1 <= Len(s)
  /\ \A k \in 1..Len(p) : s[i + k - 1] = p[k]

\* As StartsAt, ignoring case (re.IGNORECASE on a literal).
StartsAtNoCase(s, i, p) ==
  /\ i >= 1
  /\ i + Len(p) - 1 <= Len(s)
  /\ \A k \in 1..Len(p) : LowerChar(s[i + k - 1]) = LowerChar(p[k])

\* str.startswith
StartsWith(s, p) == StartsAt(s, 1, p)

\* "p in s"
Contains(s, p) == \E i \in 1..(Len(s) - Len(p) + 1) : StartsAt(s, i, p)

\* Concatenation of a sequence of strings: "".join(parts)
RECURSIVE ConcatFrom(_, _)
ConcatFrom(parts, k) ==
  IF k > Len(parts) THEN <<>> ELSE parts[k] \o ConcatFrom(parts, k + 1)

Concat(parts) == ConcatFrom(parts, 1)

\* sep.join(parts)
RECURSIVE JoinFrom(_, _, _)
JoinFrom(sep, parts, k) ==
  IF k > Len(parts) THEN <<>>
  ELSE IF k = Len(parts) THEN parts[k]
  ELSE parts[k] \o sep \o JoinFrom(sep, parts, k + 1)

Join(sep, parts) == JoinFrom(sep, parts, 1)

\* The least member of a non-empty set of integers.
Min(S) == CHOOSE x \in S : \A y \in S : x <= y

\* The greatest member of a non-empty set of integers.
Max(S) == CHOOSE x \in S : \A y \in S : x >= y

\* Position of the first occurrence of character c at or after i, or
\* Len(s) + 1 when there is none.
FindChar(s, i, c) == Min({j \in i..Len(s) : s[j] = c} \cup {Len(s) + 1})

\* str.split(sep) for a one-character separator: always at least one field.
RECURSIVE SplitFrom(_, _, _)
SplitFrom(s, i, c) ==
  With(FindChar(s, i, c), LAMBDA j :
    IF j > Len(s) THEN << Slice(s, i, Len(s)) >>
    ELSE << Slice(s, i, j - 1) >> \o SplitFrom(s, j + 1, c))

Split(s, c) == SplitFrom(s, 1, c)

\* Number of whitespace characters standing in s from position i on (the
\* span a greedy \s* takes).
SpaceRun(s, i) ==
  IF i > Len(s) THEN 0
  ELSE Min({j \in i..Len(s) : ~IsSpace(s[j])} \cup {Len(s) + 1}) - i

\* Number of newline characters standing in s from position i on (\n*).
NewlineRun(s, i) ==
  IF i > Len(s) THEN 0
  ELSE Min({j \in i..Len(s) : s[j] # "\n"} \cup {Len(s) + 1}) - i

\* str.lstrip() / str.rstrip() / str.strip()
LStrip(s) == From(s, 1 + SpaceRun(s, 1))

RStrip(s) == Slice(s, 1, Max({j \in 1..Len(s) : ~IsSpace(s[j])} \cup {0}))

Strip(s) == LStrip(RStrip(s))

\* The least member of hits, or none when hits is empty: the place of the
\* leftmost match of a substitution.
First(hits, none) == IF hits = {} THEN none ELSE Min(hits)

\* str.replace(old, new): every non-overlapping occurrence, left to right.
RECURSIVE ReplaceFrom(_, _, _, _)
ReplaceFrom(s, i, old, new) ==
  With(First({j \in i..Len(s) : StartsAt(s, j, old)}, 0), LAMBDA hit :
    IF hit = 0 THEN From(s, i)
    ELSE Slice(s, i, hit - 1) \o new \o ReplaceFrom(s, hit + Len(old), old, new))

Replace(s, old, new) == ReplaceFrom(s, 1, old, new)

\* End of the line that holds position i: the position of the next "\n" at
\* or after i, or Len(s) + 1.
LineEnd(s, i) == FindChar(s, i, "\n")

\* ^ under re.MULTILINE: the start of the text or just after a newline.
AtLineStart(s, i) == i = 1 \/ (i >= 2 /\ i <= Len(s) + 1 /\ s[i - 1] = "\n")

\* The printable ASCII characters in code point order, from the space (32)
\* to the tilde (126).
Printable ==
  Chars(" !\"#$%&'()*+,-./0123456789:;<=>?@ABCDEFGHIJKLMNOPQRSTUVWXYZ[\\]^_")
    \o << BQ >> \o Chars("abcdefghijklmnopqrstuvwxyz{|}~")

\* ord(c)
Ord(c) ==
  IF c = "\n" THEN 10
  ELSE 31 + (CHOOSE i \in DOMAIN Printable : Printable[i] = c)

\* s < t for two strings: by the code points at the first place where they
\* differ, a proper prefix being the smaller one.
StrLess(s, t) ==
  With(First({k \in 1..Min({Len(s), Len(t)}) : s[k] # t[k]}, 0), LAMBDA k :
    IF k = 0 THEN Len(s) < Len(t) ELSE Ord(s[k]) < Ord(t[k]))

\* p < q for two tuples of strings (the parts of a path, a tuple of group
\* names): by the first part where they differ.
PathLess(p, q) ==
  With(First({k \in 1..Min({Len(p), Len(q)}) : p[k] # q[k]}, 0), LAMBDA k :
    IF k = 0 THEN Len(p) < Len(q) ELSE StrLess(p[k], q[k]))

\* sorted(S) for a set of strings
RECURSIVE SortedStrings(_)
SortedStrings(S) ==
  IF S = {} THEN <<>>
  ELSE With(CHOOSE x \in S : \A y \in S \ {x} : StrLess(x, y), LAMBDA x :
         << x >> \o SortedStrings(S \ {x}))

\* sorted(S) for a set of tuples of strings
RECURSIVE SortedPaths(_)
SortedPaths(S) ==
  IF S = {} THEN <<>>
  ELSE With(CHOOSE x \in S : \A y \in S \ {x} : PathLess(x, y), LAMBDA x :
         << x >> \o SortedPaths(S \ {x}))

\* str.endswith
EndsWith(s, p) == Len(p) <= Len(s) /\ StartsAt(s, Len(s) - Len(p) + 1, p)

(***************************************************************************)
(* MDX sanitizer                                                           *)
(***************************************************************************)

void_elements ==
  << Chars("img"), Chars("br"), Chars("hr"), Chars("input"), Chars("meta"),
     Chars("link"), Chars("area"), Chars("base"), Chars("col"), Chars("embed"),
     Chars("source"), Chars("track"), Chars("wbr") >>

\* VoidGroupEnd with the look-behind (?<!/) left out of the pattern.
VoidGroupEndNoLookBehind(s, q) ==
  With(FindChar(s, q, ">"), LAMBDA gt :
    IF gt > Len(s) THEN 0
    ELSE First({r \in q..gt : \A k \in r..(gt - 1) : IsSpace(s[k])}, 0))

\* The lazy group ([^>]*?) of the void-element pattern, started at q: the
\* first r >= q, with no ">" in s[q..r-1], where the look-behind (?<!/) holds
\* and \s*> matches (only whitespace stands between r and the first ">").
\* 0 when the pattern fails from q.
VoidGroupEnd(s, q) ==
  With(FindChar(s, q, ">"), LAMBDA gt :
    IF gt > Len(s) THEN 0
    ELSE First({r \in q..gt : s[r - 1] # "/"
                                /\ \A k \in r..(gt - 1) : IsSpace(s[k])}, 0))

\* One attempt of  <(element)\s*([^>]*?)(?<!/)\s*>  at position i.
\* The result is [ok, g1, g2, next]: the groups and the position after the
\* match.  The greedy first \s* never has to give a character back: a
\* shorter first \s* succeeds only where the longest one does.
VoidMatchAt(s, i, element) ==
  IF i <= Len(s) /\ s[i] = "<" /\ StartsAtNoCase(s, i + 1, element)
  THEN With(i + 1 + Len(element), LAMBDA p :
       With(p + SpaceRun(s, p), LAMBDA q :
       With(VoidGroupEnd(s, q), LAMBDA r :
         IF r # 0
         THEN [ok |-> TRUE, g1 |-> Slice(s, i + 1, p - 1),
               g2 |-> Slice(s, q, r - 1), next |-> r + SpaceRun(s, r) + 1]
         ELSE [ok |-> FALSE, g1 |-> <<>>, g2 |-> <<>>, next |-> i + 1])))
  ELSE [ok |-> FALSE, g1 |-> <<>>, g2 |-> <<>>, next |-> i + 1]

\* re.sub(pattern, r"<\1 \2 />", text, flags=re.IGNORECASE) for one element.
RECURSIVE VoidCloseFrom(_, _, _)
VoidCloseFrom(s, i, element) ==
  With(First({j \in i..Len(s) : VoidMatchAt(s, j, element).ok}, 0), LAMBDA hit :
    IF hit = 0 THEN From(s, i)
    ELSE With(VoidMatchAt(s, hit, element), LAMBDA m :
           Slice(s, i, hit - 1)
             \o <<"<">> \o m.g1 \o <<" ">> \o m.g2 \o <<" ", "/", ">">>
             \o VoidCloseFrom(s, m.next, element)))

\* One attempt of  <(element)\s+/>  at position i: the position after the
\* match, 0 when it fails.
VoidTidyEnd(s, i, element) ==
  IF s[i] = "<" /\ StartsAtNoCase(s, i + 1, element)
  THEN With(i + 1 + Len(element) + SpaceRun(s, i + 1 + Len(element)), LAMBDA e :
         IF e > i + 1 + Len(element) /\ StartsAt(s, e, <<"/", ">">>)
         THEN e + 2
         ELSE 0)
  ELSE 0

\* re.sub(r"<(element)\s+/>", r"<\1 />", text, flags=re.IGNORECASE)
RECURSIVE VoidTidyFrom(_, _, _)
VoidTidyFrom(s, i, element) ==
  With(First({j \in i..Len(s) : VoidTidyEnd(s, j, element) # 0}, 0), LAMBDA hit :
    IF hit = 0 THEN From(s, i)
    ELSE Slice(s, i, hit - 1)
           \o <<"<">> \o Slice(s, hit + 1, hit + Len(element))
           \o <<" ", "/", ">">>
           \o VoidTidyFrom(s, VoidTidyEnd(s, hit, element), element))

\* The body of the loop over void_elements, for one element.
FixVoidElement(s, element) == VoidTidyFrom(VoidCloseFrom(s, 1, element), 1, element)

\* for element in void_elements: ...  The text after each pass is computed
\* (its length is taken) before the next pass starts, as the loop does.
RECURSIVE FixVoidLoop(_, _)
FixVoidLoop(s, k) ==
  IF k > Len(void_elements) THEN s
  ELSE With(FixVoidElement(s, void_elements[k]), LAMBDA fixed :
         IF Len(fixed) >= 0 THEN FixVoidLoop(fixed, k + 1) ELSE fixed)

\* convert_notebook_to_mdx.py: fix_html_void_elements
fix_html_void_elements(text) == FixVoidLoop(text, 1)

\* text.replace("{", "\\{").replace("}", "\\}")
EscapeBraces(text) ==
  Replace(Replace(text, Chars("{"), Chars("\\{")), Chars("}"), Chars("\\}"))

\* convert_notebook_to_mdx.py: escape_mdx_text
escape_mdx_text(text) == EscapeBraces(text)

\* notebook_to_mdx.py: sanitize_markdown_for_mdx
sanitize_markdown_for_mdx(text) == EscapeBraces(FixVoidLoop(text, 1))

(***************************************************************************)
(* Title and first-heading handling                                        *)
(***************************************************************************)

\* The start of group (.+) in  #\s+(.+)$  when "#" stands at p - 1: the
\* greedy \s+ first takes the whole whitespace run (newlines included) and
\* gives characters back until a character other than "\n" follows.  0 when
\* no length >= 1 works.
HeadingTextStart(s, p) ==
  With({r \in (p + 1)..(p + SpaceRun(s, p)) : r <= Len(s) /\ s[r] # "\n"},
       LAMBDA starts : IF starts = {} THEN 0 ELSE Max(starts))

\* One attempt of  #\s+(.+)$  (re.MULTILINE) at position i: group 1, or the
\* failure [ok |-> FALSE].
HeadingMatchAt(s, i) ==
  IF i <= Len(s) /\ s[i] = "#"
  THEN With(HeadingTextStart(s, i + 1), LAMBDA r :
         IF r # 0 THEN [ok |-> TRUE, text |-> Slice(s, r, LineEnd(s, r) - 1)]
         ELSE [ok |-> FALSE, text |-> <<>>])
  ELSE [ok |-> FALSE, text |-> <<>>]

\* re.search(r"^#\s+(.+)$", source, re.MULTILINE): the leftmost line start
\* where the attempt succeeds.
HeadingSearch(s) ==
  With(First({i \in 1..Len(s) : AtLineStart(s, i) /\ HeadingMatchAt(s, i).ok}, 0),
       LAMBDA hit : IF hit = 0 THEN [ok |-> FALSE, text |-> <<>>]
                    ELSE HeadingMatchAt(s, hit))

\* "".join(cell.get("source", []))
SourceOf(cell) == Concat(cell.source)

\* notebook_to_mdx.py: extract_title_from_markdown
RECURSIVE extract_title_from_markdown(_)
extract_title_from_markdown(cells) ==
  IF cells = <<>> THEN Chars("Untitled")
  ELSE IF Head(cells).cell_type # "markdown"
  THEN extract_title_from_markdown(Tail(cells))
  ELSE With(HeadingSearch(SourceOf(Head(cells))), LAMBDA m :
         IF m.ok THEN Strip(m.text)
         ELSE extract_title_from_markdown(Tail(cells)))

\* re.match(r"^#\s+", line): a "#" at the start followed by whitespace.
IsH1Line(line) == Len(line) >= 2 /\ line[1] = "#" /\ IsSpace(line[2])

\* re.search(r"^#\s+", source, re.MULTILINE)
HasH1(source) ==
  \E i \in 1..Len(source) :
    AtLineStart(source, i) /\ source[i] = "#" /\ i + 1 <= Len(source)
      /\ IsSpace(source[i + 1])

\* Index of the first line that is an H1 line, 0 when there is none.
FirstH1Line(lines) == First({k \in 1..Len(lines) : IsH1Line(lines[k])}, 0)

\* The lines without line k.
DropLine(lines, k) == SubSeq(lines, 1, k - 1) \o SubSeq(lines, k + 1, Len(lines))

\* notebook_to_mdx.py, convert_notebook_to_mdx, the skip_first_h1 block:
\* [source, skip] after the block.
SkipFirstH1(source, skip) ==
  IF skip /\ HasH1(source)
  THEN With(Split(source, "\n"), LAMBDA lines :
       With(FirstH1Line(lines), LAMBDA k :
         [source |-> Join(<<"\n">>, IF k = 0 THEN lines ELSE DropLine(lines, k)),
          skip |-> (k = 0)]))
  ELSE [source |-> source, skip |-> skip]

(***************************************************************************)
(* Table of contents                                                       *)
(***************************************************************************)

TocHeading == Chars("## Table of Contents")

\* Number of digits standing in s from position i on (\d+ takes them all).
DigitRun(s, i) ==
  IF i > Len(s) THEN 0
  ELSE Min({j \in i..Len(s) : ~IsDigit(s[j])} \cup {Len(s) + 1}) - i

\* One attempt of  \[([^\]]+)\]\([^)]+\)  at position i: [ok, inner, next].
LinkAt(s, i) ==
  IF i <= Len(s) /\ s[i] = "["
  THEN With(FindChar(s, i + 1, "]"), LAMBDA a :
         IF a > i + 1 /\ a + 1 <= Len(s) /\ s[a + 1] = "("
         THEN With(FindChar(s, a + 2, ")"), LAMBDA b :
                IF b <= Len(s) /\ b > a + 2
                THEN [ok |-> TRUE, inner |-> Slice(s, i + 1, a - 1), next |-> b + 1]
                ELSE [ok |-> FALSE, inner |-> <<>>, next |-> i + 1])
         ELSE [ok |-> FALSE, inner |-> <<>>, next |-> i + 1])
  ELSE [ok |-> FALSE, inner |-> <<>>, next |-> i + 1]

\* \s*\[[^\]]+\]\([^)]+\)\n*  from position i: the position after it, or 0.
TocLinkEnd(s, i) ==
  With(LinkAt(s, i + SpaceRun(s, i)), LAMBDA m :
    IF m.ok THEN m.next + NewlineRun(s, m.next) ELSE 0)

\* One list item of the table of contents from position i: "\d+\." then the
\* link when numbered, "-" then the link otherwise.  The position after the
\* item, or 0.
TocItemEnd(s, i, numbered) ==
  IF numbered
  THEN With(DigitRun(s, i), LAMBDA d :
         IF d >= 1 /\ i + d <= Len(s) /\ s[i + d] = "." THEN TocLinkEnd(s, i + d + 1)
         ELSE 0)
  ELSE IF i <= Len(s) /\ s[i] = "-" THEN TocLinkEnd(s, i + 1) ELSE 0

\* (?:item)+ greedy: the position after the last item that matches.
RECURSIVE TocItemsEnd(_, _, _)
TocItemsEnd(s, i, numbered) ==
  With(TocItemEnd(s, i, numbered), LAMBDA e :
    IF e = 0 THEN i ELSE TocItemsEnd(s, e, numbered))

\* One attempt of the whole pattern at i: the position after the match, 0
\* when it fails.
TocMatchEnd(s, i, numbered) ==
  IF StartsAt(s, i, TocHeading)
  THEN With(NewlineRun(s, i + Len(TocHeading)), LAMBDA n :
         IF n >= 1 /\ TocItemEnd(s, i + Len(TocHeading) + n, numbered) # 0
         THEN TocItemsEnd(s, i + Len(TocHeading) + n, numbered)
         ELSE 0)
  ELSE 0

\* re.sub(pattern, "", text)
RECURSIVE TocRemoveFrom(_, _, _)
TocRemoveFrom(s, i, numbered) ==
  With(First({j \in i..Len(s) : TocMatchEnd(s, j, numbered) # 0}, 0), LAMBDA hit :
    IF hit = 0 THEN From(s, i)
    ELSE Slice(s, i, hit - 1)
           \o TocRemoveFrom(s, TocMatchEnd(s, hit, numbered), numbered))

\* notebook_to_mdx.py: remove_table_of_contents
remove_table_of_contents(text) ==
  TocRemoveFrom(TocRemoveFrom(text, 1, TRUE), 1, FALSE)

(***************************************************************************)
(* Paths and files                                                         *)
(*                                                                         *)
(* A path is the sequence of its components, relative to the working       *)
(* directory; an absolute path starts with the component "/".  The source  *)
(* tree is a set of files [path, data] below the working directory; data   *)
(* is a sequence of bytes.                                                 *)
(***************************************************************************)

Root == << Chars("/") >>

\* Path.parent
Parent(path) == IF path = <<>> THEN <<>> ELSE SubSeq(path, 1, Len(path) - 1)

\* Path.name
Name(path) == IF path = <<>> THEN <<>> ELSE path[Len(path)]

\* Path.stem: the name without its last suffix.
Stem(path) ==
  With(Name(path), LAMBDA n :
    With({i \in 2..Len(n) : n[i] = "."}, LAMBDA dots :
      IF dots = {} THEN n ELSE Slice(n, 1, Max(dots) - 1)))

IsPathPart(part) == part # <<>> /\ part # <<".">>

\* dir / text: the components of text ("" and "." dropped) appended to dir,
\* or taken from the root when text is absolute.
PathJoin(dir, text) ==
  (IF StartsWith(text, Chars("/")) THEN Root ELSE dir)
    \o SelectSeq(Split(text, "/"), IsPathPart)

\* True when dir is a directory: the root, the working directory, or a
\* proper prefix of the path of a file of the tree.
IsDir(files, dir) ==
  \/ dir = Root
  \/ dir = <<>>
  \/ \E f \in files : Len(f.path) > Len(dir) /\ SubSeq(f.path, 1, Len(dir)) = dir

\* The place the file system reaches by following the path component by
\* component: [ok, at].  ".." steps to the parent of a directory; nothing
\* of the tree lies above the working directory.
RECURSIVE Resolve(_, _)
Resolve(files, path) ==
  IF path = <<>> \/ path = Root THEN [ok |-> TRUE, at |-> path]
  ELSE With(Resolve(files, Parent(path)), LAMBDA up :
         IF ~up.ok \/ ~IsDir(files, up.at) THEN [ok |-> FALSE, at |-> <<>>]
         ELSE IF Name(path) = Chars("..")
         THEN [ok |-> up.at # <<>>,
               at |-> IF up.at = Root THEN Root ELSE Parent(up.at)]
         ELSE [ok |-> TRUE, at |-> up.at \o << Name(path) >>])

\* True when the path names a file of the tree.
IsFile(files, path) ==
  With(Resolve(files, path), LAMBDA r : r.ok /\ \E f \in files : f.path = r.at)

\* Path.exists(): a file or a directory.
Exists(files, path) ==
  With(Resolve(files, path), LAMBDA r :
    r.ok /\ ((\E f \in files : f.path = r.at) \/ IsDir(files, r.at)))

\* The bytes shutil.copy2 copies.
FileData(files, path) ==
  (CHOOSE f \in files : f.path = Resolve(files, path).at).data

(***************************************************************************)
(* base64                                                                  *)
(***************************************************************************)

B64Alphabet ==
  Chars("ABCDEFGHIJKLMNOPQRSTUVWXYZabcdefghijklmnopqrstuvwxyz0123456789+/")

\* The 6-bit value of a base64 digit; the padding "=" counts as 0.
B64Value(c) ==
  IF c = "=" THEN 0
  ELSE (CHOOSE i \in DOMAIN B64Alphabet : B64Alphabet[i] = c) - 1

\* The 1 to 3 bytes of one group of four base64 digits.
B64Group(q) ==
  With(B64Value(q[1]) * 262144 + B64Value(q[2]) * 4096
         + B64Value(q[3]) * 64 + B64Value(q[4]), LAMBDA n :
    SubSeq(<< n \div 65536, (n \div 256) % 256, n % 256 >>, 1,
           IF q[3] = "=" THEN 1 ELSE IF q[4] = "=" THEN 2 ELSE 3))

\* base64.b64decode of a padded payload (length a multiple of four).
RECURSIVE b64decode(_)
b64decode(payload) ==
  IF Len(payload) < 4 THEN <<>>
  ELSE B64Group(SubSeq(payload, 1, 4)) \o b64decode(From(payload, 5))

(***************************************************************************)
(* Image relocator (notebook_to_mdx.py: process_images)                    *)
(***************************************************************************)

PublishedImages == Chars("/tutorials/example-notebooks/images/")

BrandingMarker == Chars("header-logo")

AttachmentPrefix == Chars("attachment:")

\* ![alt](/tutorials/example-notebooks/images/new_filename)
ImageMarkdown(alt_text, new_filename) ==
  Chars("![") \o alt_text \o Chars("](") \o PublishedImages \o new_filename
    \o Chars(")")

IsAlnum(c) == IsUpper(c) \/ IsLower(c) \/ IsDigit(c)

\* re.sub(r"[^a-zA-Z0-9]", "-", attachment_name.split(".")[0])
SafeName(attachment_name) ==
  With(Split(attachment_name, ".")[1], LAMBDA first :
    [i \in 1..Len(first) |-> IF IsAlnum(first[i]) THEN first[i] ELSE "-"])

\* MimeExt without the jpeg -> jpg rule.
MimeSubtype(mime_type) ==
  With(Split(mime_type, "/"), LAMBDA parts : parts[Len(parts)])

\* mime_type.split("/")[-1], with jpeg written jpg.
MimeExt(mime_type) ==
  With(Split(mime_type, "/"), LAMBDA parts :
    IF parts[Len(parts)] = Chars("jpeg") THEN Chars("jpg") ELSE parts[Len(parts)])

\* attachment_name in attachments
HasAttachment(attachments, attachment_name) ==
  \E k \in DOMAIN attachments : attachments[k].name = attachment_name

\* attachments[attachment_name]: the (mime type, payload) items in order.
AttachmentData(attachments, attachment_name) ==
  attachments[CHOOSE k \in DOMAIN attachments :
                attachments[k].name = attachment_name].data

\* The file a relative image path names, seen from the notebook.
SourceImage(image_path, notebook_path) ==
  With(IF StartsWith(image_path, Chars("./")) THEN From(image_path, 3)
       ELSE image_path, LAMBDA p :
    IF StartsWith(p, Chars("../"))
    THEN PathJoin(Parent(Parent(notebook_path)), From(p, 4))
    ELSE PathJoin(Parent(notebook_path), p))

\* The outcome of a replacement that writes nothing: [text, writes, raised].
Unwritten(text, raised) == [text |-> text, writes |-> <<>>, raised |-> raised]

\* The outcome of a replacement that writes one file to images_dir and
\* returns the markdown image that points to it.
Relocated(alt_text, new_filename, data) ==
  [text |-> ImageMarkdown(alt_text, new_filename),
   writes |-> << [name |-> new_filename, data |-> data] >>,
   raised |-> FALSE]

\* The local-file branch shared by replace_image and replace_html_img:
\* [text, writes, raised], where writes are the files written to images_dir
\* and raised tells that shutil.copy2 raised (the source is a directory).
CopyLocalImage(alt_text, image_path, original, notebook_path, notebook_slug, files) ==
  With(SourceImage(image_path, notebook_path), LAMBDA source_image :
    IF Exists(files, source_image)
    THEN IF IsFile(files, source_image)
         THEN Relocated(alt_text, notebook_slug \o <<"-">> \o Name(source_image),
                        FileData(files, source_image))
         ELSE Unwritten(original, TRUE)
    ELSE Unwritten(original, FALSE))

\* process_images.replace_image
replace_image(alt_text, image_path, original, cell, notebook_path, notebook_slug, files) ==
  IF Contains(image_path, BrandingMarker) THEN Unwritten(<<>>, FALSE)
  ELSE IF StartsWith(image_path, AttachmentPrefix)
  THEN With(Replace(image_path, AttachmentPrefix, <<>>), LAMBDA attachment_name :
         IF HasAttachment(cell.attachments, attachment_name)
         THEN With(AttachmentData(cell.attachments, attachment_name), LAMBDA items :
                IF items # <<>>
                THEN Relocated(alt_text,
                               notebook_slug \o <<"-">> \o SafeName(attachment_name)
                                 \o <<".">> \o MimeExt(items[1].mime),
                               b64decode(items[1].payload))
                ELSE Unwritten(original, FALSE))
         ELSE Unwritten(original, FALSE))
  ELSE CopyLocalImage(alt_text, image_path, original, notebook_path,
                      notebook_slug, files)

\* One attempt of  !\[([^\]]*)\]\(([^)]+)\)  at position i.
MdImageAt(s, i) ==
  IF StartsAt(s, i, Chars("!["))
  THEN With(FindChar(s, i + 2, "]"), LAMBDA a :
         IF a + 1 <= Len(s) /\ s[a + 1] = "("
         THEN With(FindChar(s, a + 2, ")"), LAMBDA b :
                IF b <= Len(s) /\ b > a + 2
                THEN [ok |-> TRUE, alt |-> Slice(s, i + 2, a - 1),
                      path |-> Slice(s, a + 2, b - 1), next |-> b + 1]
                ELSE [ok |-> FALSE, alt |-> <<>>, path |-> <<>>, next |-> i + 1])
         ELSE [ok |-> FALSE, alt |-> <<>>, path |-> <<>>, next |-> i + 1])
  ELSE [ok |-> FALSE, alt |-> <<>>, path |-> <<>>, next |-> i + 1]

\* The outcome of a substitution whose leftmost replacement gave r after
\* the unmatched text before, and whose remaining text gives rest.  A
\* replacement that raises ends the substitution.
Spliced(before, r, rest) ==
  IF r.raised THEN [text |-> <<>>, writes |-> r.writes, raised |-> TRUE]
  ELSE [text |-> before \o r.text \o rest.text,
        writes |-> r.writes \o rest.writes,
        raised |-> rest.raised]

\* re.sub(r"!\[([^\]]*)\]\(([^)]+)\)", replace_image, source) from i on.
RECURSIVE MdImagesFrom(_, _, _, _, _, _)
MdImagesFrom(s, i, cell, notebook_path, notebook_slug, files) ==
  With(First({j \in i..Len(s) : MdImageAt(s, j).ok}, 0), LAMBDA hit :
    IF hit = 0 THEN Unwritten(From(s, i), FALSE)
    ELSE With(MdImageAt(s, hit), LAMBDA m :
           Spliced(Slice(s, i, hit - 1),
                   replace_image(m.alt, m.path, Slice(s, hit, m.next - 1),
                                 cell, notebook_path, notebook_slug, files),
                   MdImagesFrom(s, m.next, cell, notebook_path,
                                notebook_slug, files))))

\* re.search(key=["\']([^"\']+)["\'], tag) with at least least characters
\* in the group: [ok, value].
AttrSearch(tag, key, least) ==
  LET IsQuote(c) == c = "\"" \/ c = "'"
      Close(j) == Min({e \in (j + Len(key) + 1)..Len(tag) : IsQuote(tag[e])}
                        \cup {Len(tag) + 1})
  IN  With(First({j \in 1..Len(tag) :
                    /\ StartsAt(tag, j, key)
                    /\ j + Len(key) <= Len(tag)
                    /\ IsQuote(tag[j + Len(key)])
                    /\ Close(j) <= Len(tag)
                    /\ Close(j) - (j + Len(key) + 1) >= least}, 0), LAMBDA hit :
        IF hit = 0 THEN [ok |-> FALSE, value |-> <<>>]
        ELSE [ok |-> TRUE, value |-> Slice(tag, hit + Len(key) + 1, Close(hit) - 1)])

\* replace_html_img without the header-logo test.
replace_html_img_keeps_branding(full_tag, notebook_path, notebook_slug, files) ==
  With(AttrSearch(full_tag, Chars("src="), 1), LAMBDA src_match :
    IF ~src_match.ok THEN Unwritten(full_tag, FALSE)
    ELSE With(AttrSearch(full_tag, Chars("alt="), 0), LAMBDA alt_match :
           CopyLocalImage(IF alt_match.ok THEN alt_match.value ELSE <<>>,
                          src_match.value, full_tag, notebook_path,
                          notebook_slug, files)))

\* process_images.replace_html_img
replace_html_img(full_tag, notebook_path, notebook_slug, files) ==
  With(AttrSearch(full_tag, Chars("src="), 1), LAMBDA src_match :
    IF ~src_match.ok THEN Unwritten(full_tag, FALSE)
    ELSE IF Contains(src_match.value, BrandingMarker) THEN Unwritten(<<>>, FALSE)
    ELSE With(AttrSearch(full_tag, Chars("alt="), 0), LAMBDA alt_match :
           CopyLocalImage(IF alt_match.ok THEN alt_match.value ELSE <<>>,
                          src_match.value, full_tag, notebook_path,
                          notebook_slug, files)))

\* One attempt of  <img\s+[^>]*>  at position i: the position after the
\* tag, 0 when it fails.
HtmlImgEnd(s, i) ==
  IF StartsAt(s, i, Chars("<img")) /\ SpaceRun(s, i + 4) >= 1
  THEN With(FindChar(s, i + 4, ">"), LAMBDA g : IF g <= Len(s) THEN g + 1 ELSE 0)
  ELSE 0

\* re.sub(r"<img\s+[^>]*>", replace_html_img, updated_source) from i on.
RECURSIVE HtmlImagesFrom(_, _, _, _, _)
HtmlImagesFrom(s, i, notebook_path, notebook_slug, files) ==
  With(First({j \in i..Len(s) : HtmlImgEnd(s, j) # 0}, 0), LAMBDA hit :
    IF hit = 0 THEN Unwritten(From(s, i), FALSE)
    ELSE With(HtmlImgEnd(s, hit), LAMBDA e :
           Spliced(Slice(s, i, hit - 1),
                   replace_html_img(Slice(s, hit, e - 1), notebook_path,
                                    notebook_slug, files),
                   HtmlImagesFrom(s, e, notebook_path, notebook_slug, files))))

\* notebook_to_mdx.py: process_images.  [text, writes, raised]: the updated
\* source, the files written to images_dir in the order they are written,
\* and whether an exception left the function (text is then unused).
process_images(source, cell, notebook_path, notebook_slug, files) ==
  With(MdImagesFrom(source, 1, cell, notebook_path, notebook_slug, files),
       LAMBDA md :
    IF md.raised THEN md
    ELSE With(HtmlImagesFrom(md.text, 1, notebook_path, notebook_slug, files),
              LAMBDA html :
           [text |-> html.text, writes |-> md.writes \o html.writes,
            raised |-> html.raised]))

(***************************************************************************)
(* Converter B (convert_notebook_to_mdx.py): cells                         *)
(***************************************************************************)

\* The escape character 0x1b (a TLA+ string cannot hold it).
ESC == "<esc>"

Fence == << BQ, BQ, BQ >>

\* convert_notebook_to_mdx.py: process_markdown_cell
process_markdown_cell(cell) ==
  fix_html_void_elements(SourceOf(cell)) \o Chars("\n\n")

\* <Expandable title="...">, a fenced block tagged lang, </Expandable>
Expandable(title, lang, body) ==
  Chars("\n<Expandable title=\"") \o title \o Chars("\">\n") \o Fence \o lang
    \o Chars("\n") \o body \o Chars("\n") \o Fence \o Chars("\n</Expandable>\n")

\* <Frame> around an embedded data-URI image
FramedImage(mime, img_data) ==
  Chars("\n<Frame>\n  <img src=\"data:") \o mime \o Chars(";base64,") \o img_data
    \o Chars("\" alt=\"Output\" />\n</Frame>\n")

\* "mime in data" and data[mime]; data is a sequence of [mime, value] items.
HasMime(data, mime) == \E k \in DOMAIN data : data[k].mime = mime

MimeValue(data, mime) == data[CHOOSE k \in DOMAIN data : data[k].mime = mime].value

\* AnsiEnd for the pattern  \x1b\[[0-9]*m , which has no ";".
AnsiEndDigitsOnly(s, i) ==
  IF StartsAt(s, i, << ESC, "[" >>)
  THEN With(Min({j \in (i + 2)..Len(s) : ~IsDigit(s[j])} \cup {Len(s) + 1}),
            LAMBDA stop :
         IF stop <= Len(s) /\ s[stop] = "m" THEN stop + 1 ELSE 0)
  ELSE 0

\* One attempt of  \x1b\[[0-9;]*m  at position i: the position after the
\* match, 0 when it fails.
AnsiEnd(s, i) ==
  IF StartsAt(s, i, << ESC, "[" >>)
  THEN With(Min({j \in (i + 2)..Len(s) : ~(IsDigit(s[j]) \/ s[j] = ";")}
                  \cup {Len(s) + 1}), LAMBDA stop :
         IF stop <= Len(s) /\ s[stop] = "m" THEN stop + 1 ELSE 0)
  ELSE 0

\* re.sub(r"\x1b\[[0-9;]*m", "", tb_text)
RECURSIVE StripAnsiFrom(_, _)
StripAnsiFrom(s, i) ==
  With(First({j \in i..Len(s) : AnsiEnd(s, j) # 0}, 0), LAMBDA hit :
    IF hit = 0 THEN From(s, i)
    ELSE Slice(s, i, hit - 1) \o StripAnsiFrom(s, AnsiEnd(s, hit)))

\* RenderData with text/html tested before the image types.
RenderDataHtmlFirst(data) ==
  IF HasMime(data, Chars("text/html"))
  THEN << Expandable(Chars("HTML Output"), Chars("html"),
                     MimeValue(data, Chars("text/html"))) >>
  ELSE IF HasMime(data, Chars("image/png"))
  THEN << FramedImage(Chars("image/png"), MimeValue(data, Chars("image/png"))) >>
  ELSE IF HasMime(data, Chars("image/jpeg"))
  THEN << FramedImage(Chars("image/jpeg"), MimeValue(data, Chars("image/jpeg"))) >>
  ELSE <<>>

\* The fragment of one execute_result / display_data payload, as a list of
\* zero or one strings: the first mime type present in the order of the
\* if / elif chain.
RenderData(data) ==
  IF HasMime(data, Chars("image/png"))
  THEN << FramedImage(Chars("image/png"), MimeValue(data, Chars("image/png"))) >>
  ELSE IF HasMime(data, Chars("image/jpeg"))
  THEN << FramedImage(Chars("image/jpeg"), MimeValue(data, Chars("image/jpeg"))) >>
  ELSE IF HasMime(data, Chars("image/svg+xml"))
  THEN << Chars("\n<Frame>\n") \o MimeValue(data, Chars("image/svg+xml"))
            \o Chars("\n</Frame>\n") >>
  ELSE IF HasMime(data, Chars("text/html"))
  THEN IF Contains(Lower(MimeValue(data, Chars("text/html"))), Chars("<table"))
       THEN << Expandable(Chars("Table Output"), Chars("html"),
                          MimeValue(data, Chars("text/html"))) >>
       ELSE << Expandable(Chars("HTML Output"), Chars("html"),
                          MimeValue(data, Chars("text/html"))) >>
  ELSE IF HasMime(data, Chars("text/plain"))
          /\ Strip(MimeValue(data, Chars("text/plain"))) # <<>>
  THEN << Expandable(Chars("Output"), <<>>,
                     RStrip(MimeValue(data, Chars("text/plain")))) >>
  ELSE <<>>

\* The fragment of one output, as a list of zero or one strings.
RenderOutput(output) ==
  IF output.output_type = "stream"
  THEN IF Strip(Concat(output.text)) # <<>>
       THEN << Expandable(Chars("Output"), <<>>, RStrip(Concat(output.text))) >>
       ELSE <<>>
  ELSE IF output.output_type \in {"execute_result", "display_data"}
  THEN RenderData(output.data)
  ELSE IF output.output_type = "error"
  THEN << Expandable(Chars("Error: ") \o output.ename, <<>>,
                     StripAnsiFrom(Join(<<"\n">>, output.traceback), 1)) >>
  ELSE <<>>

RECURSIVE RenderOutputs(_)
RenderOutputs(outputs) ==
  IF outputs = <<>> THEN <<>>
  ELSE RenderOutput(Head(outputs)) \o RenderOutputs(Tail(outputs))

\* f"```python\n{source}\n```\n"
CodeBlockB(source) ==
  Fence \o Chars("python\n") \o source \o Chars("\n") \o Fence \o Chars("\n")

\* process_code_cell with the outputs rendered only below a code block.
process_code_cell_skips_blank(cell, show_output) ==
  With(SourceOf(cell), LAMBDA source :
    Join(<<"\n">>,
         IF Strip(source) # <<>>
         THEN << CodeBlockB(source) >>
                \o (IF show_output THEN RenderOutputs(cell.outputs) ELSE <<>>)
         ELSE <<>>)
      \o <<"\n">>)

\* convert_notebook_to_mdx.py: process_code_cell
process_code_cell(cell, show_output) ==
  With(SourceOf(cell), LAMBDA source :
    Join(<<"\n">>,
         (IF Strip(source) # <<>> THEN << CodeBlockB(source) >> ELSE <<>>)
           \o (IF show_output THEN RenderOutputs(cell.outputs) ELSE <<>>))
      \o <<"\n">>)

(***************************************************************************)
(* Converter B: frontmatter                                                *)
(***************************************************************************)

DescLimit == 160

DescKeep == 157

\* re.sub(r"\[([^\]]+)\]\([^)]+\)", r"\1", desc)
RECURSIVE StripLinksFrom(_, _)
StripLinksFrom(s, i) ==
  With(First({j \in i..Len(s) : LinkAt(s, j).ok}, 0), LAMBDA hit :
    IF hit = 0 THEN From(s, i)
    ELSE With(LinkAt(s, hit), LAMBDA m :
           Slice(s, i, hit - 1) \o m.inner \o StripLinksFrom(s, m.next)))

\* One attempt of  d([^c]+)d  at position i, where the delimiter d repeats
\* the character c: [ok, inner, next].
WrappedAt(s, i, d) ==
  IF StartsAt(s, i, d)
  THEN With(FindChar(s, i + Len(d), d[1]), LAMBDA e :
         IF e > i + Len(d) /\ StartsAt(s, e, d)
         THEN [ok |-> TRUE, inner |-> Slice(s, i + Len(d), e - 1),
               next |-> e + Len(d)]
         ELSE [ok |-> FALSE, inner |-> <<>>, next |-> i + 1])
  ELSE [ok |-> FALSE, inner |-> <<>>, next |-> i + 1]

\* re.sub of  d([^c]+)d  by  \1  (bold, italic, inline code)
RECURSIVE UnwrapFrom(_, _, _)
UnwrapFrom(s, i, d) ==
  With(First({j \in i..Len(s) : WrappedAt(s, j, d).ok}, 0), LAMBDA hit :
    IF hit = 0 THEN From(s, i)
    ELSE With(WrappedAt(s, hit, d), LAMBDA m :
           Slice(s, i, hit - 1) \o m.inner \o UnwrapFrom(s, m.next, d)))

\* The four clean-up substitutions of extract_description.
CleanDescription(line) ==
  UnwrapFrom(UnwrapFrom(UnwrapFrom(StripLinksFrom(Strip(line), 1), 1, Chars("**")),
                        1, Chars("*")), 1, << BQ >>)

\* Truncate that keeps DescLimit characters before the marker.
TruncateAtLimit(desc) ==
  IF Len(desc) > DescLimit THEN SubSeq(desc, 1, DescLimit) \o Chars("...") ELSE desc

\* desc[:157] + "..." when desc is longer than 160 characters.
Truncate(desc) ==
  IF Len(desc) > DescLimit THEN SubSeq(desc, 1, DescKeep) \o Chars("...") ELSE desc

\* The scan of extract_description over the stripped lines of one cell from
\* line k on: [found, desc, found_title].
RECURSIVE DescribeLines(_, _, _)
DescribeLines(lines, k, found_title) ==
  IF k > Len(lines) THEN [found |-> FALSE, desc |-> <<>>, found_title |-> found_title]
  ELSE With(Strip(lines[k]), LAMBDA line :
         IF StartsWith(line, Chars("# ")) /\ ~found_title
         THEN DescribeLines(lines, k + 1, TRUE)
         ELSE IF line = <<>> \/ StartsWith(line, Chars("#"))
                 \/ StartsWith(line, Chars("<"))
         THEN DescribeLines(lines, k + 1, found_title)
         ELSE With(CleanDescription(line), LAMBDA desc :
                IF StartsWith(desc, Chars("<")) \/ desc = <<>>
                THEN DescribeLines(lines, k + 1, found_title)
                ELSE [found |-> TRUE, desc |-> Truncate(desc),
                      found_title |-> found_title]))

\* The loop of extract_description over the cells.
RECURSIVE DescribeCells(_, _)
DescribeCells(cells, found_title) ==
  IF cells = <<>> THEN <<>>
  ELSE IF Head(cells).cell_type # "markdown" THEN DescribeCells(Tail(cells), found_title)
  ELSE With(DescribeLines(Split(Strip(SourceOf(Head(cells))), "\n"), 1, found_title),
            LAMBDA r :
         IF r.found THEN r.desc ELSE DescribeCells(Tail(cells), r.found_title))

\* convert_notebook_to_mdx.py: extract_description
extract_description(cells) == DescribeCells(cells, FALSE)

\* The title loop of generate_frontmatter: re.match(r"^#\s+(.+)$", source,
\* re.MULTILINE) tries the start of the source only.
RECURSIVE TitleFromCells(_, _)
TitleFromCells(cells, default) ==
  IF cells = <<>> THEN default
  ELSE IF Head(cells).cell_type # "markdown" THEN TitleFromCells(Tail(cells), default)
  ELSE With(HeadingMatchAt(SourceOf(Head(cells)), 1), LAMBDA m :
         IF m.ok THEN Strip(m.text) ELSE TitleFromCells(Tail(cells), default))

\* The title of generate_frontmatter.
FrontmatterTitle(notebook_path, cells) ==
  TitleFromCells(cells,
    Replace(Replace(Stem(notebook_path), Chars("_"), Chars(" ")),
            Chars("-"), Chars(" ")))

icon_map ==
  << [category |-> Chars("Getting_Started"), icon |-> Chars("rocket")],
     [category |-> Chars("Analyzing_Data"), icon |-> Chars("chart-line")],
     [category |-> Chars("Reading_and_Writing_Data"), icon |-> Chars("database")],
     [category |-> Chars("Open_Data_Connections"), icon |-> Chars("plug")],
     [category |-> Chars("Foreign_Catalogs"), icon |-> Chars("folder-tree")],
     [category |-> Chars("scala"), icon |-> Chars("code")] >>

\* key: "value"
MetaLine(key, value) == key \o Chars(": \"") \o value \o Chars("\"")

\* convert_notebook_to_mdx.py: generate_frontmatter; category is <<>> when
\* there is none.
generate_frontmatter(notebook_path, cells, category) ==
  With(extract_description(cells), LAMBDA description :
  With(First({k \in DOMAIN icon_map : icon_map[k].category = category}, 0),
       LAMBDA icon :
    Join(<<"\n">>,
      << Chars("---"), MetaLine(Chars("title"), FrontmatterTitle(notebook_path, cells)) >>
      \o (IF description # <<>>
          THEN << MetaLine(Chars("description"),
                           Replace(description, Chars("\""), Chars("\\\""))) >>
          ELSE <<>>)
      \o (IF category # <<>> /\ icon # 0
          THEN << MetaLine(Chars("icon"), icon_map[icon].icon) >>
          ELSE <<>>)
      \o << Chars("---"), <<>> >>) \o Chars("\n")))

\* re.match(r"^#\s+", content)
StartsWithH1(content) == Len(content) >= 2 /\ content[1] = "#" /\ IsSpace(content[2])

\* re.sub(r"^#\s+.+\n*", "", content, count=1): without re.MULTILINE the
\* pattern is tried at the start of the content only.
RemoveLeadingH1(content) ==
  IF content # <<>> /\ content[1] = "#" /\ HeadingTextStart(content, 2) # 0
  THEN With(LineEnd(content, HeadingTextStart(content, 2)), LAMBDA e :
         From(content, e + NewlineRun(content, e)))
  ELSE content

\* convert_notebook_to_mdx.py, convert_notebook_to_mdx, the markdown branch
\* of the loop: [parts, skip], the strings appended and the flag afterwards.
MarkdownStepB(cell, skip) ==
  With(process_markdown_cell(cell), LAMBDA content :
    IF skip /\ StartsWithH1(content)
    THEN With(RemoveLeadingH1(content), LAMBDA rest :
           [parts |-> IF Strip(rest) # <<>> THEN << rest >> ELSE <<>>,
            skip |-> FALSE])
    ELSE [parts |-> << content >>, skip |-> skip])

(***************************************************************************)
(* Converter A (notebook_to_mdx.py): cells                                 *)
(***************************************************************************)

\* notebook_path.stem.replace("_", "-").lower()
NotebookSlug(notebook_path) ==
  Lower(Replace(Stem(notebook_path), Chars("_"), Chars("-")))

\* notebook_path.stem.replace("_", "-") + ".mdx"
OutputNameA(notebook_path) ==
  Replace(Stem(notebook_path), Chars("_"), Chars("-")) \o Chars(".mdx")

\* f"{notebook_path.stem}.mdx"
OutputNameB(notebook_path) == Stem(notebook_path) \o Chars(".mdx")

\* language_info.name or kernelspec.language or "python"; <<>> stands for a
\* missing or empty entry.
LanguageOf(metadata) ==
  IF metadata.language_info_name # <<>> THEN metadata.language_info_name
  ELSE IF metadata.kernelspec_language # <<>> THEN metadata.kernelspec_language
  ELSE Chars("python")

\* The four frontmatter parts of converter A.
FrontmatterA(title) ==
  << Chars("---"), MetaLine(Chars("title"), title), Chars("---"), <<>> >>

\* CodeBlockA with the source passed through the sanitizer, as the markdown
\* branch does.
CodeBlockSanitized(language, source) ==
  << Fence \o language, sanitize_markdown_for_mdx(source), Fence, <<>> >>

\* The parts a code cell appends.
CodeBlockA(language, source) == << Fence \o language, source, Fence, <<>> >>

\* The parts the markdown branch of the loop appends for the text the
\* skip_first_h1 block left: table of contents removed, sanitized, dropped
\* when blank.
MarkdownPartsA(sanitized) ==
  IF Strip(sanitized) # <<>> THEN << sanitized, <<>> >> ELSE <<>>

\* One iteration of the cell loop of convert_notebook_to_mdx (converter A):
\* [parts, skip, writes, raised, updated_source], where updated_source is the
\* cell's text as the loop holds it before the skip_first_h1 block (the
\* value process_images returned for a markdown cell).
CellStepA(cell, skip, language, notebook_path, files) ==
  With(SourceOf(cell), LAMBDA source :
    IF Strip(source) = <<>>
    THEN [parts |-> <<>>, skip |-> skip, writes |-> <<>>, raised |-> FALSE,
          updated_source |-> source]
    ELSE IF cell.cell_type = "markdown"
    THEN With(process_images(source, cell, notebook_path,
                             NotebookSlug(notebook_path), files), LAMBDA img :
           IF img.raised
           THEN [parts |-> <<>>, skip |-> skip, writes |-> img.writes,
                 raised |-> TRUE, updated_source |-> source]
           ELSE With(SkipFirstH1(img.text, skip), LAMBDA h1 :
                  [parts |-> MarkdownPartsA(sanitize_markdown_for_mdx(
                                              remove_table_of_contents(h1.source))),
                   skip |-> h1.skip, writes |-> img.writes, raised |-> FALSE,
                   updated_source |-> img.text]))
    ELSE IF cell.cell_type = "code"
    THEN [parts |-> CodeBlockA(language, source), skip |-> skip,
          writes |-> <<>>, raised |-> FALSE, updated_source |-> source]
    ELSE [parts |-> <<>>, skip |-> skip, writes |-> <<>>, raised |-> FALSE,
          updated_source |-> source])

\* One iteration of the cell loop of convert_notebook_to_mdx (converter B):
\* [parts, skip].
CellStepB(cell, skip, show_output) ==
  IF cell.cell_type = "markdown" THEN MarkdownStepB(cell, skip)
  ELSE IF cell.cell_type = "code"
  THEN [parts |-> << process_code_cell(cell, show_output) >>, skip |-> skip]
  ELSE [parts |-> <<>>, skip |-> skip]

(***************************************************************************)
(* Inputs                                                                  *)
(***************************************************************************)

\* Longest notebook (in cells) the conversions are run on.
MaxCells == 2

\* Longest text (in pieces) the text functions are applied to.
MaxPieces == 3

\* Number of times one text function is applied in a row.
MaxPasses == 2

\* Most outputs of the code cell whose outputs are rendered.
MaxOutputs == 2

\* All sequences of at most n members of S.
SeqsUpTo(S, n) == UNION {[1..k -> S] : k \in 0..n}

MarkdownCell(source, attachments) ==
  [cell_type |-> "markdown", source |-> source, attachments |-> attachments,
   outputs |-> <<>>]

CodeCell(source, outputs) ==
  [cell_type |-> "code", source |-> source, attachments |-> <<>>,
   outputs |-> outputs]

RawCell(source) ==
  [cell_type |-> "raw", source |-> source, attachments |-> <<>>, outputs |-> <<>>]

StreamOutput(text) ==
  [output_type |-> "stream", text |-> text, data |-> <<>>, ename |-> <<>>,
   traceback |-> <<>>]

\* An execute_result or display_data output; data is a sequence of
\* [mime, value] items in the order of the payload's keys.
DataOutput(output_type, data) ==
  [output_type |-> output_type, text |-> <<>>, data |-> data, ename |-> <<>>,
   traceback |-> <<>>]

ErrorOutput(ename, traceback) ==
  [output_type |-> "error", text |-> <<>>, data |-> <<>>, ename |-> ename,
   traceback |-> traceback]

MimeData(mime, value) == [mime |-> mime, value |-> value]

Attachment(name, data) == [name |-> name, data |-> data]

MimeItem(mime, payload) == [mime |-> mime, payload |-> payload]

NoMetadata == [language_info_name |-> <<>>, kernelspec_language |-> <<>>]

\* Cells of the notebooks the two converters are run on: headings at the
\* start of a cell, after other lines, alone in a cell, a "#" alone on its
\* line, no level-1 heading; code with braces, tags and "#" lines; blank
\* code; a raw cell.
SampleCells ==
  { MarkdownCell(<< Chars("# Intro\n"), Chars("Some {x} text<br>") >>, <<>>),
    MarkdownCell(<< Chars("![logo](header-logo.png)\n"), Chars("\n"),
                    Chars("# Guide\n"), Chars("More") >>, <<>>),
    MarkdownCell(<< Chars("# Second") >>, <<>>),
    MarkdownCell(<< Chars("#\n"), Chars("note") >>, <<>>),
    MarkdownCell(<< Chars("## Part\n"), Chars("text") >>, <<>>),
    CodeCell(<< Chars("x = {1}\n"), Chars("# c\n"), Chars("print('<br>')") >>,
             << StreamOutput(<< Chars("a\n") >>) >>),
    CodeCell(<< Chars("  \n") >>, << StreamOutput(<< Chars("b\n") >>) >>),
    RawCell(<< Chars("raw") >>) }

\* Outputs of a code cell: streams with and without text; payloads with
\* several mime types in an order other than the preferred one, with one
\* type, with no recognised type, and with blank plain text; an error whose
\* traceback has colour codes, a stream with colour codes, and an error
\* with an erase-line sequence.
SampleOutputs ==
  { StreamOutput(<< Chars("a\n") >>),
    StreamOutput(<< Chars("  \n") >>),
    DataOutput("execute_result",
      << MimeData(Chars("text/plain"), Chars("<Figure>")),
         MimeData(Chars("image/png"), Chars("UE5H")) >>),
    DataOutput("display_data",
      << MimeData(Chars("text/html"), Chars("<table><tr/></table>")),
         MimeData(Chars("image/svg+xml"), Chars("<svg/>")),
         MimeData(Chars("image/jpeg"), Chars("SlBH")) >>),
    DataOutput("display_data",
      << MimeData(Chars("text/plain"), Chars("p")),
         MimeData(Chars("text/html"), Chars("<i>h</i>")),
         MimeData(Chars("image/svg+xml"), Chars("<circle/>")) >>),
    DataOutput("execute_result",
      << MimeData(Chars("text/plain"), Chars("df")),
         MimeData(Chars("text/html"), Chars("<TABLE>1</TABLE>")) >>),
    DataOutput("display_data",
      << MimeData(Chars("application/json"), Chars("[1]")),
         MimeData(Chars("text/html"), Chars("<b>h</b>")) >>),
    DataOutput("execute_result",
      << MimeData(Chars("application/json"), Chars("[2]")),
         MimeData(Chars("text/plain"), Chars("7\n")) >>),
    DataOutput("display_data",
      << MimeData(Chars("application/json"), Chars("[3]")) >>),
    DataOutput("execute_result",
      << MimeData(Chars("text/plain"), Chars(" \n")) >>),
    ErrorOutput(Chars("ValueError"),
      << << ESC >> \o Chars("[0;31mValueError") \o << ESC >> \o Chars("[0m: bad"),
         Chars("  at ") \o << ESC >> \o Chars("[1;32mline 1") \o << ESC >>
           \o Chars("[m") >>),
    StreamOutput(<< << ESC >> \o Chars("[33mwarn") \o << ESC >> \o Chars("[0m\n") >>),
    ErrorOutput(Chars("KeyboardInterrupt"),
      << << ESC >> \o Chars("[2Kstopped") >>) }

\* The notebooks whose outputs are rendered: a heading cell and one code
\* cell, with or without source text.
OutputNotebooks ==
  { [path |-> << Chars("intro.ipynb") >>, metadata |-> NoMetadata,
     cells |-> << MarkdownCell(<< Chars("# Out\n"), Chars("Results") >>, <<>>),
                  CodeCell(source, outputs) >>] :
      source \in { << Chars("run()") >>, << Chars("  \n") >> },
      outputs \in SeqsUpTo(SampleOutputs, MaxOutputs) }

\* The text s written n times in a row.
RECURSIVE Repeated(_, _)
Repeated(s, n) == IF n = 0 THEN <<>> ELSE s \o Repeated(s, n - 1)

\* A line of 160 characters.
Line160 == Repeated(Chars("abcdefghi "), 16)

\* Cells of the notebooks whose frontmatter is derived: a heading and a
\* line with double quotes and a link; text before the heading; a line
\* that is 160 characters long once its link markup is taken away; a line
\* of 161 characters below a level-2 heading and a tag; a heading alone; a
\* code cell.
FrontmatterCells ==
  { MarkdownCell(<< Chars("# The \"Best\" Guide\n"),
                    Chars("Say \"hi\" to [docs](http://d)\n") >>, <<>>),
    MarkdownCell(<< Chars("Preface\n"), Chars("# Guide\n"), Chars("After") >>, <<>>),
    MarkdownCell(<< Chars("# Long\n"),
                    Chars("[") \o Line160 \o Chars("](http://u)") >>, <<>>),
    MarkdownCell(<< Chars("## Sub\n"), Chars("<br>\n"),
                    Line160 \o Chars("Z\n"), Chars("tail") >>, <<>>),
    MarkdownCell(<< Chars("# Plain") >>, <<>>),
    CodeCell(<< Chars("x = 1") >>, <<>>) }

FrontmatterNotebooks ==
  { [path |-> << Chars("Getting_Started"), Chars("tour.ipynb") >>,
     metadata |-> NoMetadata, cells |-> c] :
      c \in SeqsUpTo(FrontmatterCells, MaxCells) }

\* Notebook files, by path below the directory that is walked, each with
\* the metadata entries the language is read from.
SampleFiles ==
  { [path |-> << Chars("Getting_Started"), Chars("My_Note_book.ipynb") >>,
     metadata |-> [language_info_name |-> <<>>, kernelspec_language |-> <<>>]],
    [path |-> << Chars("scala"), Chars("a-b.ipynb") >>,
     metadata |-> [language_info_name |-> Chars("scala"),
                   kernelspec_language |-> Chars("r")]],
    [path |-> << Chars("intro.ipynb") >>,
     metadata |-> [language_info_name |-> <<>>,
                   kernelspec_language |-> Chars("sql")]] }

SampleNotebooks ==
  { [path |-> f.path, metadata |-> f.metadata, cells |-> c] :
      f \in SampleFiles, c \in SeqsUpTo(SampleCells, MaxCells) }

\* The image files beside the notebooks.
SourceTree ==
  { [path |-> << Chars("nb"), Chars("c.png") >>, data |-> << 1 >>],
    [path |-> << Chars("nb"), Chars("b-c.png") >>, data |-> << 2 >>],
    [path |-> << Chars("nb"), Chars("x.png") >>, data |-> << 3 >>],
    [path |-> << Chars("nb"), Chars("img"), Chars("x.png") >>, data |-> << 4 >>],
    [path |-> << Chars("nb"), Chars("plot{1}.png") >>, data |-> << 5 >>],
    [path |-> << Chars("nb"), Chars("header-logo.png") >>, data |-> << 6 >>] }

PngOf(payload) == << MimeItem(Chars("image/png"), payload) >>

\* Cell lists of the notebooks whose images are relocated: pasted
\* attachments (named image.png by the notebook editor) in two cells,
\* attachment names that differ after the first dot, a jpeg payload, a
\* branding attachment, an attachment without payload, an attachment that
\* is missing, local files of the same name in two directories, branding
\* images in both syntaxes beside a content image, references that name no
\* file, a reference to a directory, and a file with braces in its name.
ImageCellLists ==
  { << MarkdownCell(<< Chars("![chart](attachment:image.png)") >>,
                    << Attachment(Chars("image.png"), PngOf(Chars("QUJD"))) >>),
       MarkdownCell(<< Chars("![map](attachment:image.png)") >>,
                    << Attachment(Chars("image.png"), PngOf(Chars("QUI="))) >>) >>,
    << MarkdownCell(<< Chars("![p](attachment:fig.v1.png) "),
                       Chars("![q](attachment:fig.v2.png)") >>,
                    << Attachment(Chars("fig.v1.png"), PngOf(Chars("QQ=="))),
                       Attachment(Chars("fig.v2.png"), PngOf(Chars("Qg=="))) >>) >>,
    << MarkdownCell(<< Chars("![photo](attachment:my photo.png)") >>,
                    << Attachment(Chars("my photo.png"),
                         << MimeItem(Chars("image/jpeg"), Chars("QUJD")),
                            MimeItem(Chars("image/png"), Chars("QQ==")) >>) >>) >>,
    << MarkdownCell(<< Chars("![logo](attachment:header-logo.png)") >>,
                    << Attachment(Chars("header-logo.png"), PngOf(Chars("QUJD"))) >>) >>,
    << MarkdownCell(<< Chars("![e](attachment:empty.png) "),
                       Chars("![m](attachment:missing.png)") >>,
                    << Attachment(Chars("empty.png"), <<>>) >>) >>,
    << MarkdownCell(<< Chars("![a](img/x.png)\n"),
                       Chars("<img src=\"./x.png\" alt=\"b\">") >>, <<>>) >>,
    << MarkdownCell(<< Chars("![c](c.png)") >>, <<>>) >>,
    << MarkdownCell(<< Chars("![bc](b-c.png)") >>, <<>>),
       CodeCell(<< Chars("show()") >>, <<>>) >>,
    << MarkdownCell(<< Chars("![logo](header-logo.png)\n"),
                       Chars("<img src=\"./header-logo.png\" alt=\"logo\">\n"),
                       Chars("Intro ![c](c.png)") >>, <<>>) >>,
    << MarkdownCell(<< Chars("![n](nofile.png)\n"),
                       Chars("<img src=\"none.png\">") >>, <<>>),
       CodeCell(<< Chars("show()") >>, <<>>) >>,
    << MarkdownCell(<< Chars("![d](img)") >>, <<>>),
       MarkdownCell(<< Chars("after") >>, <<>>) >>,
    << MarkdownCell(<< Chars("![plot](plot{1}.png)") >>, <<>>) >> }

\* The two notebooks converted side by side; their slugs are a and a-b.
ImageNotebookPaths ==
  << << Chars("nb"), Chars("a.ipynb") >>, << Chars("nb"), Chars("a-b.ipynb") >> >>

\* Pieces of the texts the sanitizer functions are applied to.
TextPieces ==
  { Fence \o Chars("\n"), Chars("{a}\n"), Chars("<br>\n"), Chars("\\{b\\}"),
    Chars("<br  />"), Chars("<img src=\"a.png\">"), Chars("<hr/>"),
    Chars("<BR>"), Chars("text "), Chars("<colgroup>") }

SampleTexts == { Concat(p) : p \in SeqsUpTo(TextPieces, MaxPieces) }

(***************************************************************************)
(* State                                                                   *)
(***************************************************************************)

Workers == {1, 2}

VARIABLES
  notebooks,      \* worker -> the notebook it converts: [path, metadata, cells]
  converter,      \* worker -> "A" (notebook_to_mdx.py), "B"
                  \*           (convert_notebook_to_mdx.py) or "none"
  show_output,    \* worker -> the show_output argument of converter B
  pc,             \* worker -> "ready", "cells", "done", "skipped", "failed", "idle"
  cell_index,     \* worker -> index of the next cell of the loop
  skip_first_h1,  \* worker -> the flag of that name
  mdx_parts,      \* worker -> mdx_parts (A) / mdx_content (B)
  updated_source, \* worker -> text of the last cell after process_images
  written,        \* files written to images_dir, in order: [by, cell, name, data]
  output,         \* the documents written: [by, dir, name, content]
  text,           \* the text the text functions start from
  result,         \* the text after the passes applied so far
  applied,        \* the text function that is being applied, "none" at first
  passes,         \* how many times it has been applied
  s3_objects,     \* executor: the keys of the objects below the input prefix
  notebook_keys,  \* executor: the keys list_s3_notebooks returned
  manifest,       \* executor: the manifest dictionary of main
  exec_index,     \* executor: position of the loop over notebook_keys
  uploaded,       \* executor: the manifests uploaded, in order
  exec_pc,        \* executor: "start", "loop", "summary", "exited", "idle"
  exec_exit,      \* executor: exit status of the process, -1 while it runs
  docs_json,      \* navigation: the content of docs.json
  mdx_names,      \* navigation: the stems of the MDX files of notebooks_dir
  nav_before,     \* navigation: docs.json as it was before the last run
  nav_runs,       \* navigation: how often update_docs_navigation.py has run
  nav_writes,     \* navigation: how often docs.json has been written
  tree,           \* batch: the notebook files below the source directory
  batch_mode,     \* batch: "A", "B directory", "B file" or "none"
  batch,          \* batch: the paths the loop goes through, in its order
  batch_index,    \* batch: position of the loop over batch
  converted,      \* batch: the converted list
  reported,       \* batch: the messages printed about notebooks: [kind, path]
  batch_pc,       \* batch: "start", "loop", "converting", "exited", "idle"
  batch_exit,     \* batch: exit status of the process, -1 while it runs
  deleted,        \* cleanup: the notebooks deleted from the source directory
  removed,        \* cleanup: the files cleanup_orphaned_files has removed
  cleanup_runs    \* cleanup: how often cleanup_orphaned_mdx.py has run

executor_vars ==
  << s3_objects, notebook_keys, manifest, exec_index, uploaded, exec_pc,
     exec_exit >>

navigation_vars == << docs_json, mdx_names, nav_before, nav_runs, nav_writes >>

batch_vars ==
  << tree, batch_mode, batch, batch_index, converted, reported, batch_pc,
     batch_exit >>

cleanup_vars == << deleted, removed, cleanup_runs >>

vars ==
  << notebooks, converter, show_output, pc, cell_index, skip_first_h1,
     mdx_parts, updated_source, written, output, text, result, applied, passes,
     executor_vars, navigation_vars, batch_vars, cleanup_vars >>

conversion_vars ==
  << notebooks, converter, show_output, pc, cell_index, skip_first_h1,
     mdx_parts, updated_source, written, output >>

text_vars == << text, result, applied, passes >>

\* What the converters and the text functions leave alone.
site_vars == << executor_vars, navigation_vars, batch_vars, cleanup_vars >>

\* What the notebook executor leaves alone.
outside_executor ==
  << conversion_vars, text_vars, navigation_vars, batch_vars, cleanup_vars >>

\* What the navigation update leaves alone.
outside_navigation ==
  << conversion_vars, text_vars, executor_vars, batch_vars, cleanup_vars >>

NoNotebook == [path |-> <<>>, metadata |-> NoMetadata, cells |-> <<>>]

\* The state of the workers before any conversion has started; nb and conv
\* give each worker's notebook and converter.
ConversionsStart(nb, conv, show) ==
  /\ notebooks = nb
  /\ converter = conv
  /\ show_output = show
  /\ pc = [w \in Workers |-> IF conv[w] = "none" THEN "idle" ELSE "ready"]
  /\ cell_index = [w \in Workers |-> 1]
  /\ skip_first_h1 = [w \in Workers |-> TRUE]
  /\ mdx_parts = [w \in Workers |-> <<>>]
  /\ updated_source = [w \in Workers |-> <<>>]
  /\ written = <<>>
  /\ output = {}

NoText ==
  /\ text = <<>>
  /\ result = <<>>
  /\ applied = "none"
  /\ passes = 0

\* The manifest main starts from.
NewManifest(total) ==
  [total |-> total, success |-> 0, cell_error |-> 0, failed |-> 0,
   notebooks |-> <<>>]

NoExecutor ==
  /\ s3_objects = {}
  /\ notebook_keys = <<>>
  /\ manifest = NewManifest(0)
  /\ exec_index = 1
  /\ uploaded = <<>>
  /\ exec_pc = "idle"
  /\ exec_exit = -1

NoNavigation ==
  /\ docs_json = [tabs |-> <<>>]
  /\ mdx_names = {}
  /\ nav_before = [tabs |-> <<>>]
  /\ nav_runs = 0
  /\ nav_writes = 0

NoBatch ==
  /\ tree = {}
  /\ batch_mode = "none"
  /\ batch = <<>>
  /\ batch_index = 1
  /\ converted = <<>>
  /\ reported = <<>>
  /\ batch_pc = "idle"
  /\ batch_exit = -1

NoCleanup ==
  /\ deleted = {}
  /\ removed = {}
  /\ cleanup_runs = 0

\* Nothing but a conversion or a text function is under way.
NoSite == NoExecutor /\ NoNavigation /\ NoBatch /\ NoCleanup

\* One notebook, converted by converter A or by converter B.
Init ==
  /\ \E nb \in SampleNotebooks, conv \in {"A", "B"}, show \in BOOLEAN :
       /\ conv = "A" => show
       /\ ConversionsStart([w \in Workers |-> IF w = 1 THEN nb ELSE NoNotebook],
                           [w \in Workers |-> IF w = 1 THEN conv ELSE "none"],
                           [w \in Workers |-> show])
  /\ NoText
  /\ NoSite

\* One notebook with a code cell and its outputs, converted by converter A
\* or by converter B.
InitOutputs ==
  /\ \E nb \in OutputNotebooks, conv \in {"A", "B"}, show \in BOOLEAN :
       /\ conv = "A" => show
       /\ ConversionsStart([w \in Workers |-> IF w = 1 THEN nb ELSE NoNotebook],
                           [w \in Workers |-> IF w = 1 THEN conv ELSE "none"],
                           [w \in Workers |-> show])
  /\ NoText
  /\ NoSite

\* One notebook whose title and description are derived, converted by
\* converter A or by converter B.
InitFrontmatter ==
  /\ \E nb \in FrontmatterNotebooks, conv \in {"A", "B"} :
       ConversionsStart([w \in Workers |-> IF w = 1 THEN nb ELSE NoNotebook],
                        [w \in Workers |-> IF w = 1 THEN conv ELSE "none"],
                        [w \in Workers |-> TRUE])
  /\ NoText
  /\ NoSite

\* Two notebooks with different slugs, both converted by converter A into
\* the same images directory.
InitImages ==
  /\ \E c1 \in ImageCellLists, c2 \in ImageCellLists :
       ConversionsStart(
         [w \in Workers |-> [path |-> ImageNotebookPaths[w],
                             metadata |-> NoMetadata,
                             cells |-> IF w = 1 THEN c1 ELSE c2]],
         [w \in Workers |-> "A"],
         [w \in Workers |-> TRUE])
  /\ NoText
  /\ NoSite

\* A text, before any text function is applied.
InitText ==
  /\ ConversionsStart([w \in Workers |-> NoNotebook],
                      [w \in Workers |-> "none"],
                      [w \in Workers |-> TRUE])
  /\ text \in SampleTexts
  /\ result = text
  /\ applied = "none"
  /\ passes = 0
  /\ NoSite

(***************************************************************************)
(* Converter A: notebook_to_mdx.convert_notebook_to_mdx                    *)
(***************************************************************************)

\* Lines 262-296: the notebook is read; without cells the function returns
\* None, otherwise the frontmatter parts are laid down and the loop starts.
ReadNotebookA(w) ==
  /\ converter[w] = "A"
  /\ pc[w] = "ready"
  /\ pc' = [pc EXCEPT ![w] = IF notebooks[w].cells = <<>> THEN "skipped"
                             ELSE "cells"]
  /\ mdx_parts' = [mdx_parts EXCEPT ![w] =
       IF notebooks[w].cells = <<>> THEN <<>>
       ELSE FrontmatterA(extract_title_from_markdown(notebooks[w].cells))]
  /\ skip_first_h1' = [skip_first_h1 EXCEPT ![w] = TRUE]
  /\ cell_index' = [cell_index EXCEPT ![w] = 1]
  /\ UNCHANGED << notebooks, converter, show_output, updated_source, written,
                  output >>
  /\ UNCHANGED text_vars
  /\ UNCHANGED site_vars

\* The files one cell writes to images_dir, as entries of the write log.
LogWrites(w, k, writes) ==
  [i \in 1..Len(writes) |->
     [by |-> w, cell |-> k, name |-> writes[i].name, data |-> writes[i].data]]

\* Lines 298-339: one iteration of the loop over the cells.  An exception
\* of process_images leaves the function (main does not catch it).
CellA(w) ==
  /\ converter[w] = "A"
  /\ pc[w] = "cells"
  /\ cell_index[w] <= Len(notebooks[w].cells)
  /\ \E st \in { CellStepA(notebooks[w].cells[cell_index[w]], skip_first_h1[w],
                             LanguageOf(notebooks[w].metadata), notebooks[w].path,
                             SourceTree) } :
       /\ written' = written \o LogWrites(w, cell_index[w], st.writes)
       /\ pc' = [pc EXCEPT ![w] = IF st.raised THEN "failed" ELSE "cells"]
       /\ mdx_parts' = [mdx_parts EXCEPT ![w] = @ \o st.parts]
       /\ skip_first_h1' = [skip_first_h1 EXCEPT ![w] = st.skip]
       /\ updated_source' = [updated_source EXCEPT ![w] = st.updated_source]
  /\ cell_index' = [cell_index EXCEPT ![w] = @ + 1]
  /\ UNCHANGED << notebooks, converter, show_output, output >>
  /\ UNCHANGED text_vars
  /\ UNCHANGED site_vars

\* The output directory after a document is written: a file of the same
\* directory and name is replaced.
WriteDocument(files, doc) ==
  {f \in files : ~(f.dir = doc.dir /\ f.name = doc.name)} \cup {doc}

\* Lines 341-356: the document is written under output_name.
WriteA(w) ==
  /\ converter[w] = "A"
  /\ pc[w] = "cells"
  /\ cell_index[w] > Len(notebooks[w].cells)
  /\ output' = WriteDocument(output,
       [by |-> w, dir |-> <<>>, name |-> OutputNameA(notebooks[w].path),
        content |-> Join(<<"\n">>, mdx_parts[w])])
  /\ pc' = [pc EXCEPT ![w] = "done"]
  /\ UNCHANGED << notebooks, converter, show_output, cell_index, skip_first_h1,
                  mdx_parts, updated_source, written >>
  /\ UNCHANGED text_vars
  /\ UNCHANGED site_vars

(***************************************************************************)
(* Converter B: convert_notebook_to_mdx.convert_notebook_to_mdx, called    *)
(* by convert_all_notebooks                                                *)
(***************************************************************************)

\* rel_path.parts[0] if len(rel_path.parts) > 1 else None
CategoryOf(rel_path) == IF Len(rel_path) > 1 THEN rel_path[1] ELSE <<>>

\* Lines 227-236: the notebook is read and the frontmatter is appended.
ReadNotebookB(w) ==
  /\ converter[w] = "B"
  /\ pc[w] = "ready"
  /\ pc' = [pc EXCEPT ![w] = "cells"]
  /\ mdx_parts' = [mdx_parts EXCEPT ![w] =
       << generate_frontmatter(notebooks[w].path, notebooks[w].cells,
                               CategoryOf(notebooks[w].path)) >>]
  /\ skip_first_h1' = [skip_first_h1 EXCEPT ![w] = TRUE]
  /\ cell_index' = [cell_index EXCEPT ![w] = 1]
  /\ UNCHANGED << notebooks, converter, show_output, updated_source, written,
                  output >>
  /\ UNCHANGED text_vars
  /\ UNCHANGED site_vars

\* CellB with the new parts put before the parts of the earlier cells,
\* below the frontmatter.
CellBNewestFirst(w) ==
  /\ converter[w] = "B"
  /\ pc[w] = "cells"
  /\ cell_index[w] <= Len(notebooks[w].cells)
  /\ \E st \in { CellStepB(notebooks[w].cells[cell_index[w]], skip_first_h1[w],
                             show_output[w]) } :
       /\ mdx_parts' = [mdx_parts EXCEPT ![w] = << Head(@) >> \o st.parts \o Tail(@)]
       /\ skip_first_h1' = [skip_first_h1 EXCEPT ![w] = st.skip]
  /\ cell_index' = [cell_index EXCEPT ![w] = @ + 1]
  /\ UNCHANGED << notebooks, converter, show_output, pc, updated_source,
                  written, output >>
  /\ UNCHANGED text_vars
  /\ UNCHANGED site_vars

\* Lines 238-255: one iteration of the loop over the cells.
CellB(w) ==
  /\ converter[w] = "B"
  /\ pc[w] = "cells"
  /\ cell_index[w] <= Len(notebooks[w].cells)
  /\ \E st \in { CellStepB(notebooks[w].cells[cell_index[w]], skip_first_h1[w],
                             show_output[w]) } :
       /\ mdx_parts' = [mdx_parts EXCEPT ![w] = @ \o st.parts]
       /\ skip_first_h1' = [skip_first_h1 EXCEPT ![w] = st.skip]
  /\ cell_index' = [cell_index EXCEPT ![w] = @ + 1]
  /\ UNCHANGED << notebooks, converter, show_output, pc, updated_source,
                  written, output >>
  /\ UNCHANGED text_vars
  /\ UNCHANGED site_vars

\* Line 257 and convert_all_notebooks, lines 295-299: the joined content is
\* written to output_subdir / f"{stem}.mdx".
WriteB(w) ==
  /\ converter[w] = "B"
  /\ pc[w] = "cells"
  /\ cell_index[w] > Len(notebooks[w].cells)
  /\ output' = WriteDocument(output,
       [by |-> w, dir |-> Parent(notebooks[w].path),
        name |-> OutputNameB(notebooks[w].path),
        content |-> Concat(mdx_parts[w])])
  /\ pc' = [pc EXCEPT ![w] = "done"]
  /\ UNCHANGED << notebooks, converter, show_output, cell_index, skip_first_h1,
                  mdx_parts, updated_source, written >>
  /\ UNCHANGED text_vars
  /\ UNCHANGED site_vars

(***************************************************************************)
(* The text functions, applied to a text once or several times             *)
(***************************************************************************)

\* function(result)
Apply(function, s) ==
  CASE function = "sanitize_markdown_for_mdx" -> sanitize_markdown_for_mdx(s)
    [] function = "fix_html_void_elements" -> fix_html_void_elements(s)
    [] function = "escape_mdx_text" -> escape_mdx_text(s)

\* One more pass of the function that is being applied.
Pass(function) ==
  /\ applied \in {"none", function}
  /\ passes < MaxPasses
  /\ applied' = function
  /\ passes' = passes + 1
  /\ result' = Apply(function, result)
  /\ UNCHANGED text
  /\ UNCHANGED conversion_vars
  /\ UNCHANGED site_vars

Sanitize == Pass("sanitize_markdown_for_mdx")

FixVoidElements == Pass("fix_html_void_elements")

EscapeText == Pass("escape_mdx_text")

(***************************************************************************)
(* Specifications                                                          *)
(***************************************************************************)

Next ==
  \E w \in Workers :
    \/ ReadNotebookA(w)
    \/ CellA(w)
    \/ WriteA(w)
    \/ ReadNotebookB(w)
    \/ CellB(w)
    \/ WriteB(w)

Spec == Init /\ [][Next]_vars

SpecOutputs == InitOutputs /\ [][Next]_vars

SpecFrontmatter == InitFrontmatter /\ [][Next]_vars

NextImages ==
  \E w \in Workers :
    \/ ReadNotebookA(w)
    \/ CellA(w)
    \/ WriteA(w)

SpecImages == InitImages /\ [][NextImages]_vars

NextText ==
  \/ Sanitize
  \/ FixVoidElements
  \/ EscapeText

SpecText == InitText /\ [][NextText]_vars

(***************************************************************************)
(* Notebook executor: execute_notebooks.main                               *)
(***************************************************************************)

\* The input prefix of the run, as the key prefix parse_s3_path returns.
InputPrefix == Chars("in/")

\* Objects that may lie below the input prefix: notebooks in two
\* directories, two of them of the same file name, an excluded notebook and
\* a file that is no notebook.
SampleKeys ==
  { Chars("in/a.ipynb"), Chars("in/sub/a.ipynb"), Chars("in/b.ipynb"),
    Chars("in/Raster_Inference_x.ipynb"), Chars("in/readme.md") }

\* os.path.basename
Basename(key) == From(key, Max({j \in 1..Len(key) : key[j] = "/"} \cup {0}) + 1)

\* The file name prefix of the notebooks that are left out.
ExcludedPrefix == Chars("Raster_Inference")

\* list_s3_notebooks: the notebook keys below the prefix, sorted, without
\* the excluded ones.
list_s3_notebooks(objects) ==
  SortedStrings({ key \in objects :
                    /\ EndsWith(key, Chars(".ipynb"))
                    /\ ~StartsWith(Basename(key), ExcludedPrefix) })

\* What pm.execute_notebook does with a notebook: it returns, raises
\* PapermillExecutionError, or raises another exception.
PapermillOutcomes == {"returns", "PapermillExecutionError", "Exception"}

\* execute_notebook: the status of the result dictionary.
execute_notebook(outcome) ==
  [status |-> CASE outcome = "returns" -> "success"
                [] outcome = "PapermillExecutionError" -> "cell_error"
                [] outcome = "Exception" -> "failed"]

\* Lines 305-313 with the cell_error counter never raised.
CountStatusWithoutCellError(m, status) ==
  IF status = "success" THEN [m EXCEPT !.success = @ + 1]
  ELSE IF status = "cell_error" THEN m
  ELSE [m EXCEPT !.failed = @ + 1]

\* Lines 305-313: the counter of the status is raised.
CountStatus(m, status) ==
  IF status = "success" THEN [m EXCEPT !.success = @ + 1]
  ELSE IF status = "cell_error" THEN [m EXCEPT !.cell_error = @ + 1]
  ELSE [m EXCEPT !.failed = @ + 1]

\* Lines 348-354 without the test of cell_error.
ExitStatusSuccessOnly(m) ==
  IF m.success = 0 /\ m.total > 0 THEN 1 ELSE 0

\* Lines 348-354: sys.exit(1) only if all notebooks failed.
ExitStatus(m) ==
  IF m.success = 0 /\ m.cell_error = 0 /\ m.total > 0 THEN 1 ELSE 0

\* An executor run over some of the sample objects.
InitExecutor ==
  /\ ConversionsStart([w \in Workers |-> NoNotebook],
                      [w \in Workers |-> "none"],
                      [w \in Workers |-> TRUE])
  /\ NoText
  /\ NoNavigation
  /\ NoBatch
  /\ NoCleanup
  /\ s3_objects \in SUBSET SampleKeys
  /\ notebook_keys = <<>>
  /\ manifest = NewManifest(0)
  /\ exec_index = 1
  /\ uploaded = <<>>
  /\ exec_pc = "start"
  /\ exec_exit = -1

\* Lines 237-270: the notebooks are listed; without notebooks an empty
\* manifest is uploaded and main returns.
ListNotebooks ==
  /\ exec_pc = "start"
  /\ \E keys \in { list_s3_notebooks(s3_objects) } :
       /\ notebook_keys' = keys
       /\ manifest' = NewManifest(Len(keys))
       /\ uploaded' = IF Len(keys) = 0 THEN << NewManifest(0) >> ELSE uploaded
       /\ exec_pc' = IF Len(keys) = 0 THEN "exited" ELSE "loop"
       /\ exec_exit' = IF Len(keys) = 0 THEN 0 ELSE exec_exit
  /\ UNCHANGED << s3_objects, exec_index >>
  /\ UNCHANGED outside_executor

\* Lines 273-315: one iteration of the loop: the notebook is downloaded,
\* executed and uploaded, its record is appended and its status counted.
ExecuteNotebook ==
  /\ exec_pc = "loop"
  /\ exec_index <= Len(notebook_keys)
  /\ \E outcome \in PapermillOutcomes :
       \E key \in { notebook_keys[exec_index] } :
         manifest' = CountStatus(
           [manifest EXCEPT !.notebooks = Append(@,
              [name |-> Basename(key),
               relative_path |-> From(key, Len(InputPrefix) + 1),
               s3_key |-> key,
               status |-> execute_notebook(outcome).status])],
           execute_notebook(outcome).status)
  /\ exec_index' = exec_index + 1
  /\ UNCHANGED << s3_objects, notebook_keys, uploaded, exec_pc, exec_exit >>
  /\ UNCHANGED outside_executor

\* Lines 317-327: after the loop the manifest is uploaded.
UploadManifest ==
  /\ exec_pc = "loop"
  /\ exec_index > Len(notebook_keys)
  /\ uploaded' = Append(uploaded, manifest)
  /\ exec_pc' = "summary"
  /\ UNCHANGED << s3_objects, notebook_keys, manifest, exec_index, exec_exit >>
  /\ UNCHANGED outside_executor

\* Lines 329-356: the summary is printed and the process exits.
ExitExecutor ==
  /\ exec_pc = "summary"
  /\ exec_exit' = ExitStatus(manifest)
  /\ exec_pc' = "exited"
  /\ UNCHANGED << s3_objects, notebook_keys, manifest, exec_index, uploaded >>
  /\ UNCHANGED outside_executor

NextExecutor ==
  \/ ListNotebooks
  \/ ExecuteNotebook
  \/ UploadManifest
  \/ ExitExecutor

SpecExecutor == InitExecutor /\ [][NextExecutor]_vars

(***************************************************************************)
(* Navigation: update_docs_navigation.update_docs_json                     *)
(***************************************************************************)

\* An entry of a pages array is a page string or a group object; both are
\* written as one record: a page string has a page and no group, a group
\* object has a group name, its pages, and has_pages (whether it has the
\* key "pages").
Page(path) == [page |-> path, group |-> <<>>, has_pages |-> FALSE, pages |-> <<>>]

Group(name, pages) == [page |-> <<>>, group |-> name, has_pages |-> TRUE, pages |-> pages]

GroupWithoutPages(name) ==
  [page |-> <<>>, group |-> name, has_pages |-> FALSE, pages |-> <<>>]

Tab(name, pages) == [tab |-> name, has_pages |-> TRUE, pages |-> pages]

\* isinstance(item, str)
IsPage(item) == item.group = <<>>

TutorialsTab == Chars("Spatial Analytics Tutorials")

\* The start of the page paths the update inserts.
NotebookPagePrefix == Chars("tutorials/example-notebooks/")

\* NOTEBOOK_LOCATIONS, as pairs of notebook stem and group path.
NOTEBOOK_LOCATIONS ==
  << << Chars("part-1-loading-data"), << Chars("Getting Started") >> >>,
     << Chars("part-2-reading-spatial-files"), << Chars("Getting Started") >> >>,
     << Chars("part-3-accelerating-geospatial-datasets"),
        << Chars("Getting Started") >> >>,
     << Chars("part-4-spatial-joins"), << Chars("Getting Started") >> >>,
     << Chars("pmtiles-railroad"),
        << Chars("WherobotsDB"), Chars("Vector Tiles (PMTiles)") >> >>,
     << Chars("unity-catalog-delta-tables"), << Chars("Data Connections") >> >>,
     << Chars("stac-reader"), << Chars("Data Connections") >> >>,
     << Chars("esa-worldcover"), << Chars("Data Connections") >> >>,
     << Chars("foursquare-places"), << Chars("Data Connections") >> >>,
     << Chars("noaa-swdi"), << Chars("Data Connections") >> >>,
     << Chars("overture-maps"), << Chars("Data Connections") >> >>,
     << Chars("rasterflow-chm"), << Chars("RasterFlow") >> >>,
     << Chars("rasterflow-chesapeake"), << Chars("RasterFlow") >> >>,
     << Chars("rasterflow-changedetection"), << Chars("RasterFlow") >> >>,
     << Chars("rasterflow-ftw"), << Chars("RasterFlow") >> >>,
     << Chars("rasterflow-s2-mosaic"), << Chars("RasterFlow") >> >>,
     << Chars("rasterflow-tile2net"), << Chars("RasterFlow") >> >>,
     << Chars("rasterflow-bring-your-own-rasters-naip"), << Chars("RasterFlow") >> >>,
     << Chars("rasterflow-bring-your-own-model"), << Chars("RasterFlow") >> >>,
     << Chars("isochrones"), << Chars("Advanced Topics") >> >>,
     << Chars("zonal-stats-esaworldcover-texas"), << Chars("Advanced Topics") >> >>,
     << Chars("loading-common-spatial-file-types"), << Chars("Advanced Topics") >> >>,
     << Chars("map-tile-generation"), << Chars("Advanced Topics") >> >>,
     << Chars("getting-started"), << Chars("Advanced Topics") >> >>,
     << Chars("clustering-dbscan"),
        << Chars("WherobotsAI"), Chars("Spatial Statistics") >> >>,
     << Chars("getis-ord-gi*"),
        << Chars("WherobotsAI"), Chars("Spatial Statistics") >> >>,
     << Chars("local-outlier-factor"),
        << Chars("WherobotsAI"), Chars("Spatial Statistics") >> >>,
     << Chars("k-nearest-neighbor-join"),
        << Chars("WherobotsAI"), Chars("Spatial Statistics") >> >>,
     << Chars("gps-map-matching"), << Chars("WherobotsAI") >> >> >>

\* notebook_name in NOTEBOOK_LOCATIONS
HasLocation(notebook_name) ==
  \E k \in DOMAIN NOTEBOOK_LOCATIONS : NOTEBOOK_LOCATIONS[k][1] = notebook_name

\* NOTEBOOK_LOCATIONS[notebook_name]
LocationOf(notebook_name) ==
  NOTEBOOK_LOCATIONS[CHOOSE k \in DOMAIN NOTEBOOK_LOCATIONS :
                       NOTEBOOK_LOCATIONS[k][1] = notebook_name][2]

\* collect_notebook_paths: the page path of a stem.
PagePath(name) == NotebookPagePrefix \o name

\* find_group: the group of path group_path below pages.  The result tells
\* whether it was found, where (the indices of the groups passed), and
\* gives pages as the setdefault calls of the search leave them.
RECURSIVE find_group(_, _)
find_group(pages, group_path) ==
  IF group_path = <<>> THEN [found |-> TRUE, at |-> <<>>, pages |-> pages]
  ELSE With(First({k \in DOMAIN pages : pages[k].group = Head(group_path)}, 0),
            LAMBDA k :
    IF k = 0 THEN [found |-> FALSE, at |-> <<>>, pages |-> pages]
    ELSE IF Tail(group_path) = <<>>
    THEN [found |-> TRUE, at |-> << k >>,
          pages |-> [pages EXCEPT ![k].has_pages = TRUE]]
    ELSE With(find_group(pages[k].pages, Tail(group_path)), LAMBDA nested :
           [found |-> nested.found, at |-> << k >> \o nested.at,
            pages |-> [pages EXCEPT ![k].has_pages = TRUE,
                                    ![k].pages = nested.pages]]))

\* The pages array find_group returned: the one of the group at the indices.
RECURSIVE TargetPages(_, _)
TargetPages(pages, at) ==
  IF Len(at) = 1 THEN pages[at[1]].pages
  ELSE TargetPages(pages[at[1]].pages, Tail(at))

\* pages after the array find_group returned has become target_pages.
RECURSIVE WithTargetPages(_, _, _)
WithTargetPages(pages, at, target_pages) ==
  IF Len(at) = 1 THEN [pages EXCEPT ![at[1]].pages = target_pages]
  ELSE [pages EXCEPT ![at[1]].pages = WithTargetPages(@, Tail(at), target_pages)]

\* Lines 177-183 without the test of the prefix.
IsStaleAnyPage(p, all_valid_paths) ==
  /\ IsPage(p)
  /\ p.page \notin all_valid_paths

\* Lines 177-183: the entries that are removed as stale.
IsStale(p, all_valid_paths) ==
  /\ IsPage(p)
  /\ StartsWith(p.page, NotebookPagePrefix)
  /\ p.page \notin all_valid_paths

\* list.remove(p): the list without the first entry equal to p.
ListRemove(list, p) ==
  With(Min({k \in DOMAIN list : list[k] = p}), LAMBDA k :
    Slice(list, 1, k - 1) \o From(list, k + 1))

\* Lines 184-186: for p in stale: target_pages.remove(p)
RECURSIVE RemoveStale(_, _, _)
RemoveStale(target_pages, stale, k) ==
  IF k > Len(stale) THEN target_pages
  ELSE RemoveStale(ListRemove(target_pages, stale[k]), stale, k + 1)

\* Lines 190-194: the page paths that are not present are appended.
RECURSIVE InsertPages(_, _, _)
InsertPages(target_pages, page_paths, k) ==
  IF k > Len(page_paths) THEN target_pages
  ELSE InsertPages(
         IF \E j \in DOMAIN target_pages : target_pages[j] = Page(page_paths[k])
         THEN target_pages
         ELSE Append(target_pages, Page(page_paths[k])),
         page_paths, k + 1)

\* Lines 154-160: notebooks_by_location[group_path]
NotebooksByLocation(names, group_path) ==
  { PagePath(name) : name \in {n \in names : HasLocation(n)
                                               /\ LocationOf(n) = group_path} }

\* Lines 163-166: all_group_paths
AllGroupPaths == { NOTEBOOK_LOCATIONS[k][2] : k \in DOMAIN NOTEBOOK_LOCATIONS }

\* Lines 171-194: one iteration of the loop over the group paths.
UpdateGroup(tutorials_pages, group_path, names) ==
  With(find_group(tutorials_pages, group_path), LAMBDA group :
    IF ~group.found THEN group.pages
    ELSE With(TargetPages(group.pages, group.at), LAMBDA target_pages :
           WithTargetPages(group.pages, group.at,
             InsertPages(
               RemoveStale(target_pages,
                           SelectSeq(target_pages, LAMBDA p :
                             IsStale(p, {PagePath(n) : n \in names})),
                           1),
               SortedStrings(NotebooksByLocation(names, group_path)), 1))))

\* Lines 170-194: the loop over sorted(all_group_paths).
RECURSIVE UpdateGroups(_, _, _, _)
UpdateGroups(tutorials_pages, group_paths, k, names) ==
  IF k > Len(group_paths) THEN tutorials_pages
  ELSE UpdateGroups(UpdateGroup(tutorials_pages, group_paths[k], names),
                    group_paths, k + 1, names)

\* Lines 133-139: the place of the tutorials tab among the tabs, 0 if none.
TutorialsTabAt(docs_config) ==
  First({k \in DOMAIN docs_config.tabs : docs_config.tabs[k].tab = TutorialsTab}, 0)

\* update_docs_json: the configuration that is written back.
update_docs_json(docs_config, names) ==
  With(TutorialsTabAt(docs_config), LAMBDA k :
    [docs_config EXCEPT
       !.tabs[k].has_pages = TRUE,
       !.tabs[k].pages = UpdateGroups(@, SortedPaths(AllGroupPaths), 1, names)])

\* How many entries the pages of the "Getting Started" group hold at first.
MaxNavEntries == 3

\* How often the navigation update is run.
MaxRuns == 2

\* Entries the "Getting Started" group may hold before the update: a
\* hand-written page, the page of a notebook that is mapped to this group,
\* the page of a notebook that exists no more, the page of a notebook that
\* is mapped to "Advanced Topics", and a hand-written group.
NavEntries ==
  { Page(Chars("tutorials/overview")),
    Page(PagePath(Chars("part-1-loading-data"))),
    Page(PagePath(Chars("retired-notebook"))),
    Page(PagePath(Chars("isochrones"))),
    Group(Chars("Notes"), << Page(Chars("notes/faq")) >>) }

\* Stems of the MDX files that may lie in notebooks_dir; my-draft has no
\* entry in NOTEBOOK_LOCATIONS.
SampleStems ==
  { Chars("part-1-loading-data"), Chars("isochrones"), Chars("clustering-dbscan"),
    Chars("my-draft") }

\* docs.json: a documentation tab and the tutorials tab (under its name or
\* under another one) with three of the groups of NOTEBOOK_LOCATIONS, one
\* of them nested and without a pages key.
SampleDocs(tab, pages) ==
  [tabs |->
     << Tab(Chars("Documentation"),
            << Page(Chars("index")), Page(PagePath(Chars("retired-notebook"))) >>),
        Tab(tab,
            << Page(Chars("tutorials/index")),
               Group(Chars("Getting Started"), pages),
               Group(Chars("WherobotsAI"),
                     << Page(Chars("tutorials/ai")),
                        GroupWithoutPages(Chars("Spatial Statistics")) >>),
               Group(Chars("Advanced Topics"), <<>>) >>) >>]

InitNavigation ==
  /\ ConversionsStart([w \in Workers |-> NoNotebook],
                      [w \in Workers |-> "none"],
                      [w \in Workers |-> TRUE])
  /\ NoText
  /\ NoExecutor
  /\ NoBatch
  /\ NoCleanup
  /\ \E tab \in {TutorialsTab, Chars("Tutorials")},
        pages \in SeqsUpTo(NavEntries, MaxNavEntries) :
       docs_json = SampleDocs(tab, pages)
  /\ mdx_names \in SUBSET SampleStems
  /\ nav_before = docs_json
  /\ nav_runs = 0
  /\ nav_writes = 0

\* update_docs_navigation.main, lines 231-236, with update_docs_json: the
\* script is run once more.  Without MDX files, and without the tutorials
\* tab, docs.json is not written.
UpdateNavigation ==
  /\ nav_runs < MaxRuns
  /\ nav_runs' = nav_runs + 1
  /\ nav_before' = docs_json
  /\ IF mdx_names # {} /\ TutorialsTabAt(docs_json) # 0
     THEN /\ docs_json' = update_docs_json(docs_json, mdx_names)
          /\ nav_writes' = nav_writes + 1
     ELSE UNCHANGED << docs_json, nav_writes >>
  /\ UNCHANGED mdx_names
  /\ UNCHANGED outside_navigation

NextNavigation == UpdateNavigation

SpecNavigation == InitNavigation /\ [][NextNavigation]_vars

(***************************************************************************)
(* Batch conversion: notebook_to_mdx.main (A), and convert_all_notebooks   *)
(* and the single file branch of main of convert_notebook_to_mdx.py (B)    *)
(*                                                                         *)
(* The batch runs in one process: worker 1 converts the notebooks one      *)
(* after the other.                                                        *)
(***************************************************************************)

\* A notebook file of the source directory; parseable is FALSE when
\* json.load raises on its content.
NotebookFile(name, parseable, cells) ==
  [path |-> << Chars("nb"), name >>, parseable |-> parseable,
   metadata |-> NoMetadata, cells |-> cells]

\* The files a source directory is made of: a notebook that is not JSON, an
\* excluded notebook, a notebook with capitals and an underscore in its
\* name, two notebooks with images whose slugs are a and a-b, and a
\* notebook without cells.
BatchFiles ==
  { NotebookFile(Chars("Broken.ipynb"), FALSE, <<>>),
    NotebookFile(Chars("Raster_Inference_x.ipynb"), TRUE,
                 << MarkdownCell(<< Chars("# Raster") >>, <<>>) >>),
    NotebookFile(Chars("Tour_Guide.ipynb"), TRUE,
                 << MarkdownCell(<< Chars("# Tour\n"), Chars("Hello") >>, <<>>) >>),
    NotebookFile(Chars("a.ipynb"), TRUE,
                 << MarkdownCell(<< Chars("![a](img/x.png)") >>, <<>>) >>),
    NotebookFile(Chars("a-b.ipynb"), TRUE,
                 << MarkdownCell(<< Chars("![c](c.png)") >>, <<>>),
                    CodeCell(<< Chars("show()") >>, <<>>) >>),
    NotebookFile(Chars("empty.ipynb"), TRUE, <<>>) }

\* The largest number of notebook files of a source directory.
MaxBatch == 3

\* How often the cleanup is run after a batch.
MaxCleanups == 1

\* filename.startswith("Raster_Inference")
should_exclude_notebook(notebook_path) ==
  StartsWith(Name(notebook_path), ExcludedPrefix)

\* Every order a directory walk may yield the paths of S in.
Orders(S) ==
  { order \in [1..Cardinality(S) -> S] :
      \A i, j \in 1..Cardinality(S) : i # j => order[i] # order[j] }

\* The file of the source directory at a path.
FileAt(path) == CHOOSE f \in tree : f.path = path

\* The document a converter writes for a notebook of the batch: [dir, name].
DocumentOf(mode, path) ==
  IF mode = "A" THEN [dir |-> <<>>, name |-> OutputNameA(path)]
  ELSE IF mode = "B directory"
  THEN [dir |-> Parent(path), name |-> OutputNameB(path)]
  ELSE [dir |-> <<>>, name |-> OutputNameB(path)]

InitBatch ==
  /\ ConversionsStart([w \in Workers |-> NoNotebook],
                      [w \in Workers |-> "none"],
                      [w \in Workers |-> TRUE])
  /\ NoText
  /\ NoExecutor
  /\ NoNavigation
  /\ NoCleanup
  /\ tree \in {files \in SUBSET BatchFiles : Cardinality(files) <= MaxBatch}
  /\ batch_mode \in {"A", "B directory", "B file"}
  /\ batch_mode = "B file" => Cardinality(tree) = 1
  /\ batch = <<>>
  /\ batch_index = 1
  /\ converted = <<>>
  /\ reported = <<>>
  /\ batch_pc = "start"
  /\ batch_exit = -1

\* A, lines 377-396: the notebooks are collected, the excluded ones are
\* filtered out, and without notebooks the process exits with status 1; the
\* loop goes through sorted(notebooks).  B, line 278 and lines 344-346: the
\* loop goes through the notebooks in the order of the directory walk, or
\* over the one input file.
CollectNotebooks ==
  /\ batch_pc = "start"
  /\ \E order \in
        IF batch_mode = "A"
        THEN { SortedPaths({f.path : f \in {g \in tree :
                  ~StartsWith(Name(g.path), ExcludedPrefix)}}) }
        ELSE Orders({f.path : f \in tree}) :
       /\ batch' = order
       /\ batch_pc' = IF batch_mode = "A" /\ order = <<>> THEN "exited" ELSE "loop"
       /\ batch_exit' = IF batch_mode = "A" /\ order = <<>> THEN 1 ELSE -1
  /\ UNCHANGED << tree, batch_mode, batch_index, converted, reported >>
  /\ UNCHANGED << conversion_vars, text_vars, executor_vars, navigation_vars,
                  cleanup_vars >>

\* B, lines 279-283: an excluded notebook is appended to skipped and the
\* loop goes on; lines 346-348: an excluded input file ends the process with
\* status 0.
SkipExcluded ==
  /\ batch_pc = "loop"
  /\ batch_mode \in {"B directory", "B file"}
  /\ batch_index <= Len(batch)
  /\ should_exclude_notebook(batch[batch_index])
  /\ reported' = Append(reported, [kind |-> "excluded", path |-> batch[batch_index]])
  /\ batch_index' = batch_index + 1
  /\ batch_pc' = IF batch_mode = "B file" THEN "exited" ELSE "loop"
  /\ batch_exit' = IF batch_mode = "B file" THEN 0 ELSE -1
  /\ UNCHANGED << tree, batch_mode, batch, converted >>
  /\ UNCHANGED << conversion_vars, text_vars, executor_vars, navigation_vars,
                  cleanup_vars >>

\* The next notebook of the loop is opened and parsed (A, lines 399-400 and
\* 263-264; B, lines 293-294 and 227-228, or 352-355).  When json.load
\* raises, A has no handler and the process ends with the traceback of the
\* exception and status 1; convert_all_notebooks prints the error and goes on (lines
\* 304-305); the single file branch prints it and exits with status 1.
StartNotebook ==
  /\ batch_pc = "loop"
  /\ batch_index <= Len(batch)
  /\ batch_mode = "A" \/ ~should_exclude_notebook(batch[batch_index])
  /\ \E f \in { FileAt(batch[batch_index]) } :
       IF f.parseable
       THEN /\ notebooks' = [notebooks EXCEPT ![1] =
                 [path |-> IF batch_mode = "B file" THEN << Name(f.path) >>
                           ELSE f.path,
                  metadata |-> f.metadata, cells |-> f.cells]]
            /\ converter' = [converter EXCEPT ![1] =
                 IF batch_mode = "A" THEN "A" ELSE "B"]
            /\ pc' = [pc EXCEPT ![1] = "ready"]
            /\ batch_pc' = "converting"
            /\ UNCHANGED << batch_index, reported, batch_exit >>
       ELSE /\ UNCHANGED << notebooks, converter, pc >>
            /\ reported' = Append(reported,
                 [kind |-> IF batch_mode = "A" THEN "traceback" ELSE "error",
                  path |-> f.path])
            /\ batch_index' = IF batch_mode = "B directory" THEN batch_index + 1
                              ELSE batch_index
            /\ batch_pc' = IF batch_mode = "B directory" THEN "loop" ELSE "exited"
            /\ batch_exit' = IF batch_mode = "B directory" THEN -1 ELSE 1
  /\ UNCHANGED << tree, batch_mode, batch, converted >>
  /\ UNCHANGED << show_output, cell_index, skip_first_h1, mdx_parts,
                  updated_source, written, output >>
  /\ UNCHANGED << text_vars, executor_vars, navigation_vars, cleanup_vars >>

\* The conversion of the notebook has come to its end.  A, lines 400-402
\* with 267-269: a path that was returned is appended to converted, None
\* after the warning about a notebook without cells is not, and an
\* exception ends the process.  B, lines 300-305 or 361-366.
FinishNotebook ==
  /\ batch_pc = "converting"
  /\ pc[1] \in {"done", "skipped", "failed"}
  /\ converted' =
       IF pc[1] = "done"
       THEN Append(converted, [notebook |-> batch[batch_index],
                               document |-> DocumentOf(batch_mode, batch[batch_index])])
       ELSE converted
  /\ reported' =
       IF pc[1] = "skipped"
       THEN Append(reported, [kind |-> "no cells", path |-> batch[batch_index]])
       ELSE IF pc[1] = "failed"
       THEN Append(reported,
              [kind |-> IF batch_mode = "A" THEN "traceback" ELSE "error",
               path |-> batch[batch_index]])
       ELSE reported
  /\ \E crash \in { pc[1] = "failed" /\ batch_mode # "B directory" } :
       /\ batch_index' = IF crash THEN batch_index ELSE batch_index + 1
       /\ batch_pc' = IF crash THEN "exited" ELSE "loop"
       /\ batch_exit' = IF crash THEN 1 ELSE -1
  /\ UNCHANGED << tree, batch_mode, batch >>
  /\ UNCHANGED << conversion_vars, text_vars, executor_vars, navigation_vars,
                  cleanup_vars >>

\* A, lines 404-408; B, lines 307 and 376-382: the loop is over, the
\* summary is printed and the process ends with status 0.
FinishBatch ==
  /\ batch_pc = "loop"
  /\ batch_index > Len(batch)
  /\ batch_pc' = "exited"
  /\ batch_exit' = 0
  /\ UNCHANGED << tree, batch_mode, batch, batch_index, converted, reported >>
  /\ UNCHANGED << conversion_vars, text_vars, executor_vars, navigation_vars,
                  cleanup_vars >>

(***************************************************************************)
(* cleanup_orphaned_mdx.py, run on the output directory of converter A     *)
(***************************************************************************)

\* The notebooks of the source directory that have not been deleted.
SourceNotebooks == {f \in tree : f.path \notin deleted}

\* Lines 15-37: the names expected for the notebooks under notebook_dirs.
get_expected_mdx_names(files, exclude_prefix) ==
  { Lower(Replace(Stem(f.path), Chars("_"), Chars("-"))) :
      f \in {g \in files : ~StartsWith(Name(g.path), exclude_prefix)} }

\* Lines 40-45: the stems of mdx_dir.glob("*.mdx").
get_existing_mdx_names(docs) ==
  { Stem(<< d.name >>) :
      d \in {e \in docs : e.dir = <<>> /\ EndsWith(e.name, Chars(".mdx"))} }

\* The files of images_dir: what the conversions have written and the
\* cleanup has not removed.
ImagesDir ==
  { written[k].name : k \in 1..Len(written) }
    \ { r.name : r \in {q \in removed : q.kind = "image"} }

\* images_dir.glob(f"{slug}-*") for a slug without pattern characters.
GlobSlugImages(images, slug) ==
  {i \in images : StartsWith(i, slug \o Chars("-"))}

\* Lines 61-80, one iteration of the loop: the MDX file of the name is
\* removed when it exists, and so is every image the pattern matches.
\* st is [docs, images, removed]; removed holds the list of the code as a
\* set.
CleanupName(st, name) ==
  With({d \in st.docs : d.dir = <<>> /\ d.name = name \o Chars(".mdx")}, LAMBDA mdx :
    With(GlobSlugImages(st.images, Lower(name)), LAMBDA imgs :
      [docs |-> st.docs \ mdx,
       images |-> st.images \ imgs,
       removed |-> st.removed
                     \cup { [kind |-> "mdx", name |-> d.name] : d \in mdx }
                     \cup { [kind |-> "image", name |-> i] : i \in imgs }]))

\* Lines 48-82: the loop over sorted(orphaned_names), from its k-th name.
RECURSIVE cleanup_orphaned_files(_, _, _)
cleanup_orphaned_files(st, names, k) ==
  IF k > Len(names) THEN st
  ELSE cleanup_orphaned_files(CleanupName(st, names[k]), names, k + 1)

\* Lines 125-134: existing_names - expected_names
OrphanedNames(files, docs) ==
  get_existing_mdx_names(docs) \ get_expected_mdx_names(files, ExcludedPrefix)

\* A notebook is deleted from the source directory after the batch.
DeleteNotebook ==
  /\ batch_mode = "A"
  /\ batch_pc = "exited"
  /\ batch_exit = 0
  /\ \E f \in SourceNotebooks : deleted' = deleted \cup {f.path}
  /\ UNCHANGED << removed, cleanup_runs >>
  /\ UNCHANGED << conversion_vars, text_vars, executor_vars, navigation_vars,
                  batch_vars >>

\* main, lines 122-150, without --dry-run: the orphaned names are worked
\* out and their files are removed.
CleanupOrphans ==
  /\ batch_mode = "A"
  /\ batch_pc = "exited"
  /\ batch_exit = 0
  /\ cleanup_runs < MaxCleanups
  /\ \E st \in { cleanup_orphaned_files(
                   [docs |-> output, images |-> ImagesDir, removed |-> {}],
                   SortedStrings(OrphanedNames(SourceNotebooks, output)), 1) } :
       /\ output' = st.docs
       /\ removed' = removed \cup st.removed
  /\ cleanup_runs' = cleanup_runs + 1
  /\ UNCHANGED deleted
  /\ UNCHANGED << notebooks, converter, show_output, pc, cell_index,
                  skip_first_h1, mdx_parts, updated_source, written >>
  /\ UNCHANGED << text_vars, executor_vars, navigation_vars, batch_vars >>

NextBatch ==
  \/ CollectNotebooks
  \/ SkipExcluded
  \/ StartNotebook
  \/ ReadNotebookA(1)
  \/ CellA(1)
  \/ WriteA(1)
  \/ ReadNotebookB(1)
  \/ CellB(1)
  \/ WriteB(1)
  \/ FinishNotebook
  \/ FinishBatch
  \/ DeleteNotebook
  \/ CleanupOrphans

SpecBatch == InitBatch /\ [][NextBatch]_vars

(***************************************************************************)
(* Properties: code cells                                                  *)
(***************************************************************************)

\* The language tag the converter of worker w puts on a code fence.
FenceLanguage(w) ==
  IF converter[w] = "A" THEN LanguageOf(notebooks[w].metadata) ELSE Chars("python")

\* The code cells of a notebook whose source is not blank.
FilledCodeCells(nb) ==
  {k \in DOMAIN nb.cells :
     nb.cells[k].cell_type = "code" /\ Strip(SourceOf(nb.cells[k])) # <<>>}

\* C1: every written document contains, for each code cell of its notebook
\* whose source is not blank, a fenced block on lines of its own - the
\* opening fence with the language tag, the cell's source character for
\* character, the closing fence - whichever converter wrote it.
CodeCellsVerbatim ==
  \A f \in output :
    \A k \in FilledCodeCells(notebooks[f.by]) :
      Contains(f.content,
               Chars("\n") \o Fence \o FenceLanguage(f.by) \o Chars("\n")
                 \o SourceOf(notebooks[f.by].cells[k])
                 \o Chars("\n") \o Fence \o Chars("\n"))

\* C1, the case: a written document whose notebook has a code cell with
\* braces, a tag and a "#" line in its source.
CodeCellsVerbatimWitness ==
  \E f \in output :
    \E k \in FilledCodeCells(notebooks[f.by]) :
      /\ Contains(SourceOf(notebooks[f.by].cells[k]), Chars("{1}"))
      /\ Contains(SourceOf(notebooks[f.by].cells[k]), Chars("<br>"))
      /\ Contains(SourceOf(notebooks[f.by].cells[k]), Chars("\n# c\n"))
      /\ Contains(f.content, Chars("print('<br>')"))

(***************************************************************************)
(* Properties: sanitizer                                                   *)
(***************************************************************************)

\* The positions of s where a line starts with a fence.
FenceLines(s) == {i \in 1..Len(s) : AtLineStart(s, i) /\ StartsAt(s, i, Fence)}

\* The fenced blocks of s: the text from an opening fence to the end of the
\* fence that closes it.  The fences pair up in order, so an opening fence
\* is one with an even number of fences before it.
FencedBlocks(s) ==
  { Slice(s, i, j + Len(Fence) - 1) :
      <<i, j>> \in { p \in FenceLines(s) \X FenceLines(s) :
                       /\ p[1] < p[2]
                       /\ Cardinality({e \in FenceLines(s) : e < p[1]}) % 2 = 0
                       /\ ~\E e \in FenceLines(s) : p[1] < e /\ e < p[2] } }

\* C2: after sanitize_markdown_for_mdx (and after fix_html_void_elements)
\* every fenced block of the text stands in the result unchanged.
FencedBlocksUntouched ==
  (passes = 1 /\ applied \in {"sanitize_markdown_for_mdx", "fix_html_void_elements"})
    => \A block \in FencedBlocks(text) : Contains(result, block)

\* C5: a second pass of the brace escaping (sanitize_markdown_for_mdx or
\* escape_mdx_text) over text a first pass has sanitized returns it
\* unchanged.
NoDoubleEscape ==
  [][(passes = 1 /\ passes' = 2
        /\ applied' \in {"sanitize_markdown_for_mdx", "escape_mdx_text"})
       => result' = result]_vars

\* The tags of void elements in s, as [at, name, end]: "<" at position at,
\* the element name (in any case) after it, and the first ">" at end, with
\* no other "<" before it.
VoidTags(s) ==
  { [at |-> i, name |-> Len(void_elements[e]),
     end |-> FindChar(s, i + 1 + Len(void_elements[e]), ">")] :
      <<i, e>> \in { p \in (1..Len(s)) \X DOMAIN void_elements :
                       /\ s[p[1]] = "<"
                       /\ StartsAtNoCase(s, p[1] + 1, void_elements[p[2]])
                       /\ FindChar(s, p[1] + 1 + Len(void_elements[p[2]]), ">")
                            <= Len(s)
                       /\ FindChar(s, p[1] + 1, "<")
                            > FindChar(s, p[1] + 1 + Len(void_elements[p[2]]), ">") } }

\* The tag ends with "/>".
SelfClosed(s, tag) == s[tag.end - 1] = "/"

\* s without its whitespace and its "/" characters.
Squeeze(s) == SelectSeq(s, LAMBDA c : ~IsSpace(c) /\ c # "/")

\* A self-closed tag of s as the fix is expected to leave it: a tag that
\* holds only whitespace between the element name and "/>" has that
\* whitespace collapsed to one space, any other tag is unchanged.
Collapsed(s, tag) ==
  IF /\ tag.end - 1 > tag.at + tag.name + 1
     /\ \A k \in (tag.at + tag.name + 1)..(tag.end - 2) : IsSpace(s[k])
  THEN Slice(s, tag.at, tag.at + tag.name) \o Chars(" />")
  ELSE Slice(s, tag.at, tag.end)

\* After one pass of the fix every void tag ends with "/>" and nothing but
\* whitespace and "/" was added or taken away.
VoidTagsClosed ==
  (applied = "fix_html_void_elements" /\ passes >= 1)
    => /\ \A tag \in VoidTags(result) : SelfClosed(result, tag)
       /\ Squeeze(result) = Squeeze(text)

\* A second pass of the fix changes nothing.
VoidFixSettles ==
  [][(passes = 1 /\ passes' = 2 /\ applied' = "fix_html_void_elements")
       => result' = result]_vars

\* C6 as stated: after the fix every void tag ends with "/>" and keeps its
\* attributes, every void tag that was self-closed before stands in the
\* result exactly as it was, and a second pass changes nothing.
VoidFixKeepsSelfClosed ==
  /\ [](VoidTagsClosed)
  /\ []((applied = "fix_html_void_elements" /\ passes >= 1)
          => \A tag \in {t \in VoidTags(text) : SelfClosed(text, t)} :
               Contains(result, Slice(text, tag.at, tag.end)))
  /\ VoidFixSettles

\* C6 (amended): after the fix every void tag ends with "/>" and keeps its
\* attributes (only whitespace and "/" are added or removed); every void
\* tag that was self-closed before stands in the result unchanged, except
\* that whitespace standing alone between the element name and "/>" is
\* collapsed to one space; and a second pass changes nothing.
VoidFixNormalises ==
  /\ [](VoidTagsClosed)
  /\ []((applied = "fix_html_void_elements" /\ passes >= 1)
          => \A tag \in {t \in VoidTags(text) : SelfClosed(text, t)} :
               Contains(result, Collapsed(text, tag)))
  /\ VoidFixSettles

\* C6, the case: a text with an open tag with an attribute, an open tag
\* without, and a self-closed tag, after two passes of the fix.
VoidFixNormalisesWitness ==
  /\ applied = "fix_html_void_elements"
  /\ passes = 2
  /\ text = Chars("<img src=\"a.png\"><BR><br  />")
  /\ result = Chars("<img src=\"a.png\" /><BR /><br />")

\* A tag of a void element whose name ends where the element name ends: a
\* member of VoidTags(s) with whitespace, "/" or ">" after the name.
NamedVoidTags(s) ==
  { tag \in VoidTags(s) :
      With(s[tag.at + tag.name + 1], LAMBDA c : IsSpace(c) \/ c \in {"/", ">"}) }

\* s from position i on, without the tags of void elements.
RECURSIVE WithoutVoidTagsFrom(_, _)
WithoutVoidTagsFrom(s, i) ==
  With({tag \in NamedVoidTags(s) : tag.at >= i}, LAMBDA tags :
    IF tags = {} THEN From(s, i)
    ELSE With(CHOOSE tag \in tags : \A other \in tags : tag.at <= other.at,
              LAMBDA tag :
                Slice(s, i, tag.at - 1) \o WithoutVoidTagsFrom(s, tag.end + 1)))

\* C30: void-element fixing changes only the tags of the thirteen void
\* elements: what stands outside these tags, the tags of every other
\* element included, is the same before and after (after the sanitizer, up
\* to its brace escaping).
OnlyVoidTagsChanged ==
  /\ (applied = "fix_html_void_elements" /\ passes = 1)
       => WithoutVoidTagsFrom(result, 1) = WithoutVoidTagsFrom(text, 1)
  /\ (applied = "sanitize_markdown_for_mdx" /\ passes = 1)
       => WithoutVoidTagsFrom(result, 1) = EscapeBraces(WithoutVoidTagsFrom(text, 1))

(***************************************************************************)
(* Properties: title and first heading                                     *)
(***************************************************************************)

\* The lines of the markdown cells of a notebook, in order.
RECURSIVE MarkdownLines(_)
MarkdownLines(cells) ==
  IF cells = <<>> THEN <<>>
  ELSE (IF Head(cells).cell_type = "markdown"
        THEN Split(SourceOf(Head(cells)), "\n") ELSE <<>>)
         \o MarkdownLines(Tail(cells))

\* A level-1 heading: a line that starts with a single "#" and a space.
IsLevel1(line) == StartsWith(line, Chars("# "))

\* A heading of any level: "#" characters, then a space.
IsHeading(line) ==
  \E n \in 1..Len(line) :
    /\ \A k \in 1..n : line[k] = "#"
    /\ n + 1 <= Len(line)
    /\ line[n + 1] = " "

\* Index of the first level-1 heading among the lines, 0 without one.
FirstLevel1(lines) == First({k \in DOMAIN lines : IsLevel1(lines[k])}, 0)

\* The title the frontmatter of a written document gives:  title: "..."  is
\* its second line.
DocTitle(content) ==
  With(Split(content, "\n")[2], LAMBDA line : Slice(line, 9, Len(line) - 1))

\* How many of the lines equal line.
Count(lines, line) == Cardinality({k \in DOMAIN lines : lines[k] = line})

\* C3: of the heading lines of the markdown cells exactly the first level-1
\* heading is missing from the written document, once; its text is the
\* frontmatter title; every other heading line, later level-1 headings
\* included, is in the document as often as in the cells.
OnlyFirstHeadingRemoved ==
  \A f \in output :
    With(MarkdownLines(notebooks[f.by].cells), LAMBDA lines :
    With(FirstLevel1(lines), LAMBDA first :
    With(Split(f.content, "\n"), LAMBDA body :
      /\ first # 0 => DocTitle(f.content) = Strip(From(lines[first], 3))
      /\ \A k \in DOMAIN lines :
           IsHeading(lines[k]) =>
             Count(body, lines[k])
               = Count(lines, lines[k])
                   - (IF first # 0 /\ lines[k] = lines[first] THEN 1 ELSE 0))))

\* C4: the frontmatter title of a written document is the text of the first
\* level-1 heading of the markdown cells, wherever it stands in its cell,
\* and "Untitled" when there is none - for both converters.
TitleIsFirstHeading ==
  \A f \in output :
    With(MarkdownLines(notebooks[f.by].cells), LAMBDA lines :
    With(FirstLevel1(lines), LAMBDA first :
      DocTitle(f.content)
        = IF first = 0 THEN Chars("Untitled") ELSE Strip(From(lines[first], 3))))

(***************************************************************************)
(* Properties: output names                                                *)
(***************************************************************************)

\* C7: a document is written under the slug of its notebook (the stem,
\* lowercased, underscores as dashes - the prefix of its image files)
\* followed by ".mdx".
OutputNameIsSlug ==
  \A f \in output : f.name = NotebookSlug(notebooks[f.by].path) \o Chars(".mdx")

\* C8: no image file name written for one notebook is written for the
\* other.
NoCollisionAcrossNotebooks ==
  \A i, j \in DOMAIN written :
    written[i].by # written[j].by => written[i].name # written[j].name

\* C9: within one conversion no image file name is written twice; two
\* references that resolve to different content never share a target name.
ImageNamesWrittenOnce ==
  \A i, j \in DOMAIN written :
    (i # j /\ written[i].by = written[j].by) => written[i].name # written[j].name

(***************************************************************************)
(* Properties: attachments                                                 *)
(***************************************************************************)

\* {slug}-{sanitized name}.{ext}: the name up to its first dot with every
\* character that is no letter or digit replaced by "-", and the part of
\* the mime type after its last "/", jpeg written jpg.
ExpectedImageName(slug, name, mime) ==
  slug \o Chars("-")
    \o [i \in 1..(FindChar(name, 1, ".") - 1) |->
          IF IsAlnum(name[i]) THEN name[i] ELSE "-"]
    \o Chars(".")
    \o With(From(mime, 1 + Max({j \in 1..Len(mime) : mime[j] = "/"} \cup {0})),
            LAMBDA subtype : IF subtype = Chars("jpeg") THEN Chars("jpg") ELSE subtype)

\* The markdown image references of the cell worker w processed last that
\* name an attachment of the cell, as [alt, path, name, items].
AttachmentReferences(w) ==
  IF pc[w] \in {"cells", "done"} /\ cell_index[w] > 1
       /\ notebooks[w].cells[cell_index[w] - 1].cell_type = "markdown"
  THEN With(notebooks[w].cells[cell_index[w] - 1], LAMBDA cell :
         { [alt |-> MdImageAt(SourceOf(cell), i).alt,
            path |-> MdImageAt(SourceOf(cell), i).path,
            name |-> From(MdImageAt(SourceOf(cell), i).path, Len(AttachmentPrefix) + 1),
            items |-> AttachmentData(cell.attachments,
                        From(MdImageAt(SourceOf(cell), i).path,
                             Len(AttachmentPrefix) + 1))] :
             i \in { p \in 1..Len(SourceOf(cell)) :
                       /\ MdImageAt(SourceOf(cell), p).ok
                       /\ StartsWith(MdImageAt(SourceOf(cell), p).path, AttachmentPrefix)
                       /\ HasAttachment(cell.attachments,
                            From(MdImageAt(SourceOf(cell), p).path,
                                 Len(AttachmentPrefix) + 1)) } })
  ELSE {}

\* The reference was relocated: the decoded payload of the first mime entry
\* was written, for this cell, to the expected file name, and the text the
\* cell loop holds has the reference to the published path of that file
\* with the alt text kept.
AttachmentRelocated(w, ref) ==
  /\ ref.items # <<>>
  /\ \E e \in DOMAIN written :
       /\ written[e].by = w
       /\ written[e].cell = cell_index[w] - 1
       /\ written[e].name
            = ExpectedImageName(NotebookSlug(notebooks[w].path), ref.name,
                                ref.items[1].mime)
       /\ written[e].data = b64decode(ref.items[1].payload)
  /\ Contains(updated_source[w],
       Chars("![") \o ref.alt \o Chars("](/tutorials/example-notebooks/images/")
         \o ExpectedImageName(NotebookSlug(notebooks[w].path), ref.name,
                              ref.items[1].mime)
         \o Chars(")"))

\* C10 as stated: every markdown image reference attachment:<name> whose
\* name is a key of the cell's attachments is relocated.
AttachmentsRelocated ==
  \A w \in Workers : \A ref \in AttachmentReferences(w) : AttachmentRelocated(w, ref)

\* C10 (amended): every markdown image reference attachment:<name> whose
\* name is a key of the cell's attachments, has at least one mime entry
\* there and does not contain "header-logo" is relocated: the decoded
\* payload of the first mime entry is written to {slug}-{sanitized
\* name}.{ext} and the reference is rewritten to the published path of that
\* file, the alt text kept.
ContentAttachmentsRelocated ==
  \A w \in Workers :
    \A ref \in AttachmentReferences(w) :
      (ref.items # <<>> /\ ~Contains(ref.path, BrandingMarker))
        => AttachmentRelocated(w, ref)

\* C10, the case: the cell with the attachment "my photo.png", whose first
\* mime entry is image/jpeg, was processed: a-my-photo.jpg holds the three
\* decoded bytes and the reference points to it.
ContentAttachmentsRelocatedWitness ==
  \E w \in Workers :
    /\ \E ref \in AttachmentReferences(w) :
         /\ ref.name = Chars("my photo.png")
         /\ ref.items[1].mime = Chars("image/jpeg")
    /\ \E e \in DOMAIN written :
         /\ written[e].by = w
         /\ written[e].name = NotebookSlug(notebooks[w].path) \o Chars("-my-photo.jpg")
         /\ written[e].data = << 65, 66, 67 >>
    /\ Contains(updated_source[w], Chars("-my-photo.jpg)"))

(***************************************************************************)
(* Properties: image references                                            *)
(***************************************************************************)

\* The markdown image references of a text from position i on, leftmost
\* first and not overlapping: [alt, path, text].
RECURSIVE MdReferences(_, _)
MdReferences(s, i) ==
  With(First({j \in i..Len(s) : MdImageAt(s, j).ok}, 0), LAMBDA hit :
    IF hit = 0 THEN <<>>
    ELSE With(MdImageAt(s, hit), LAMBDA m :
           << [alt |-> m.alt, path |-> m.path, text |-> Slice(s, hit, m.next - 1)] >>
             \o MdReferences(s, m.next)))

\* The <img> tags of a text from position i on that have a quoted src:
\* [alt, path, text], alt being <<>> for a markdown reference's sake.
RECURSIVE ImgReferences(_, _)
ImgReferences(s, i) ==
  With(First({j \in i..Len(s) : HtmlImgEnd(s, j) # 0}, 0), LAMBDA hit :
    IF hit = 0 THEN <<>>
    ELSE With(Slice(s, hit, HtmlImgEnd(s, hit) - 1), LAMBDA tag :
           (IF AttrSearch(tag, Chars("src="), 1).ok
            THEN << [alt |-> <<>>, path |-> AttrSearch(tag, Chars("src="), 1).value,
                     text |-> tag] >>
            ELSE <<>>)
             \o ImgReferences(s, HtmlImgEnd(s, hit))))

\* The image references of a markdown source, in both syntaxes.
ImageReferences(source) == MdReferences(source, 1) \o ImgReferences(source, 1)

\* Worker w runs converter A and the cell it processed last is a markdown
\* cell with text in it.
MarkdownCellProcessed(w) ==
  /\ converter[w] = "A"
  /\ pc[w] \in {"cells", "done", "failed"}
  /\ cell_index[w] > 1
  /\ notebooks[w].cells[cell_index[w] - 1].cell_type = "markdown"
  /\ Strip(SourceOf(notebooks[w].cells[cell_index[w] - 1])) # <<>>

\* The text of the cell worker w processed last.
LastSource(w) == SourceOf(notebooks[w].cells[cell_index[w] - 1])

\* The files worker w wrote to the images directory for its last cell.
LastWrites(w) ==
  SelectSeq(written, LAMBDA e : e.by = w /\ e.cell = cell_index[w] - 1)

\* How many times p occurs in s.
Occurrences(s, p) == Cardinality({j \in 1..Len(s) : StartsAt(s, j, p)})

IsBranding(ref) == Contains(ref.path, BrandingMarker)

IsUnresolved(w, ref) ==
  /\ ~IsBranding(ref)
  /\ IF ref.alt # <<>> /\ StartsWith(ref.path, AttachmentPrefix)
     THEN ~HasAttachment(notebooks[w].cells[cell_index[w] - 1].attachments,
                         Replace(ref.path, AttachmentPrefix, <<>>))
     ELSE ~IsFile(SourceTree, SourceImage(ref.path, notebooks[w].path))

\* C12: for every reference of the cell processed last that cannot be
\* resolved, the conversion has not failed, the text returned by
\* process_images still has the reference as it was written, and no file
\* was written under the name the reference would be given.
UnresolvedLeftAlone ==
  \A w \in Workers :
    MarkdownCellProcessed(w) =>
      With(ImageReferences(LastSource(w)), LAMBDA refs :
        \A r \in DOMAIN refs :
          IsUnresolved(w, refs[r]) =>
            /\ pc[w] # "failed"
            /\ Contains(updated_source[w], refs[r].text)
            /\ \A e \in DOMAIN LastWrites(w) :
                 LastWrites(w)[e].name
                   # NotebookSlug(notebooks[w].path) \o Chars("-")
                       \o Name(SourceImage(refs[r].path, notebooks[w].path)))

\* C20: the references that image relocation wrote are not passed through
\* the sanitizer afterwards: every file written to the images directory for
\* a notebook is referred to, in the document written for that notebook, by
\* the published path that ends with exactly the file's name.
RelocatedReferencesUnsanitized ==
  \A f \in output :
    converter[f.by] = "A" =>
      \A e \in DOMAIN written :
        written[e].by = f.by =>
          Contains(f.content,
                   Chars("](") \o PublishedImages \o written[e].name \o Chars(")"))

(***************************************************************************)
(* Properties: outputs of code cells                                       *)
(***************************************************************************)

\* The mime types a payload is rendered from, the preferred one first.
Preference ==
  << Chars("image/png"), Chars("image/jpeg"), Chars("image/svg+xml"),
     Chars("text/html"), Chars("text/plain") >>

\* The block that represents a payload's entry of one mime type.
Representation(mime, value) ==
  IF mime \in {Chars("image/png"), Chars("image/jpeg")}
  THEN Chars("\n<Frame>\n  <img src=\"data:") \o mime \o Chars(";base64,") \o value
         \o Chars("\" alt=\"Output\" />\n</Frame>\n")
  ELSE IF mime = Chars("image/svg+xml")
  THEN Chars("\n<Frame>\n") \o value \o Chars("\n</Frame>\n")
  ELSE IF mime = Chars("text/html")
  THEN Chars("\n<Expandable title=\"")
         \o (IF Contains(Lower(value), Chars("<table")) THEN Chars("Table Output")
             ELSE Chars("HTML Output"))
         \o Chars("\">\n") \o Fence \o Chars("html\n") \o value \o Chars("\n")
         \o Fence \o Chars("\n</Expandable>\n")
  ELSE Chars("\n<Expandable title=\"Output\">\n") \o Fence \o Chars("\n")
         \o RStrip(value) \o Chars("\n") \o Fence \o Chars("\n</Expandable>\n")

\* The place in Preference of the first mime type a payload has, 0 when it
\* has none of them.
Preferred(data) == First({k \in DOMAIN Preference : HasMime(data, Preference[k])}, 0)

IsDataOutput(o) == o.output_type \in {"execute_result", "display_data"}

\* The payload's preferred entry is plain text without any text in it.
BlankPlain(data) ==
  /\ Preferred(data) = 5
  /\ Strip(MimeValue(data, Preference[5])) = <<>>

\* The block of a payload that has one of the five mime types.
PreferredBlock(data) ==
  Representation(Preference[Preferred(data)],
                 MimeValue(data, Preference[Preferred(data)]))

\* The outputs of the code cells of a notebook, in order.
OutputsOf(nb) ==
  Concat([k \in DOMAIN nb.cells |->
            IF nb.cells[k].cell_type = "code" THEN nb.cells[k].outputs ELSE <<>>])

\* Every block that an entry of a payload among the outputs could be
\* rendered as.
CandidateBlocks(outputs) ==
  UNION { { Representation(outputs[k].data[i].mime, outputs[k].data[i].value) :
              i \in {j \in DOMAIN outputs[k].data :
                       \E m \in DOMAIN Preference :
                         Preference[m] = outputs[k].data[j].mime} } :
          k \in {j \in DOMAIN outputs : IsDataOutput(outputs[j])} }

\* The output is a payload that is represented; a payload whose preferred
\* entry is blank plain text counts when blank_counts says so.
Represented(o, blank_counts) ==
  /\ IsDataOutput(o)
  /\ Preferred(o.data) # 0
  /\ blank_counts \/ ~BlankPlain(o.data)

\* The output gives a block of its own.
GivesBlock(o, blank_counts) ==
  \/ o.output_type = "stream" /\ Strip(Concat(o.text)) # <<>>
  \/ o.output_type = "error"
  \/ Represented(o, blank_counts)

\* The document was written by converter B with the outputs shown.
ShowsOutputs(f) == converter[f.by] = "B" /\ show_output[f.by]

\* Each payload is represented once, by its preferred entry, and by nothing
\* else: every candidate block occurs in the document as often as it is the
\* preferred block of an output, and the document has as many blocks as
\* there are outputs that give one.
OnePerOutput(f, blank_counts) ==
  With(OutputsOf(notebooks[f.by]), LAMBDA outputs :
    /\ \A b \in CandidateBlocks(outputs) :
         Occurrences(f.content, b)
           = Cardinality({k \in DOMAIN outputs :
                            /\ Represented(outputs[k], blank_counts)
                            /\ PreferredBlock(outputs[k].data) = b})
    /\ Occurrences(f.content, Chars("\n<Frame>\n"))
         + Occurrences(f.content, Chars("\n<Expandable title=\""))
         = Cardinality({k \in DOMAIN outputs : GivesBlock(outputs[k], blank_counts)}))

\* C13 as stated: every execute_result or display_data output that has one
\* of the five mime types is represented exactly once, by the first of them
\* in the order image/png, image/jpeg, image/svg+xml, text/html,
\* text/plain; an output with none of them gives no block.
OneRepresentationPerOutput ==
  \A f \in output : ShowsOutputs(f) => OnePerOutput(f, TRUE)

\* C13 (amended): as stated, except that a payload whose preferred entry is
\* text/plain with blank text gives no block.
OneRepresentationUnlessBlank ==
  \A f \in output : ShowsOutputs(f) => OnePerOutput(f, FALSE)

\* C13, the case: a document for a cell with a payload that lists
\* text/plain before image/png and a payload of blank plain text: the one
\* block is the framed png.
OneRepresentationUnlessBlankWitness ==
  \E f \in output :
    /\ ShowsOutputs(f)
    /\ \E k \in DOMAIN OutputsOf(notebooks[f.by]) :
         /\ IsDataOutput(OutputsOf(notebooks[f.by])[k])
         /\ OutputsOf(notebooks[f.by])[k].data[1].mime = Chars("text/plain")
         /\ Preferred(OutputsOf(notebooks[f.by])[k].data) = 1
    /\ \E k \in DOMAIN OutputsOf(notebooks[f.by]) :
         /\ IsDataOutput(OutputsOf(notebooks[f.by])[k])
         /\ BlankPlain(OutputsOf(notebooks[f.by])[k].data)
    /\ Contains(f.content, Chars("<img src=\"data:image/png;base64,UE5H\""))
    /\ ~Contains(f.content, Chars("<Figure>"))
    /\ Occurrences(f.content, Chars("\n<Frame>\n")) = 1
    /\ Occurrences(f.content, Chars("\n<Expandable title=\"")) = 0

\* The characters i..j of s are a colour code: ESC [ digits and ";" m.
ColourCode(s, i, j) ==
  /\ s[i] = ESC
  /\ i + 1 < j
  /\ j <= Len(s)
  /\ s[i + 1] = "["
  /\ s[j] = "m"
  /\ \A k \in (i + 2)..(j - 1) : IsDigit(s[k]) \/ s[k] = ";"

\* Every escape character of s starts a colour code.
OnlyColourCodes(s) ==
  \A i \in 1..Len(s) : s[i] = ESC => \E j \in i..Len(s) : ColourCode(s, i, j)

\* The characters of s from position p on that lie in no colour code.
RECURSIVE Visible(_, _)
Visible(s, p) ==
  IF p > Len(s) THEN <<>>
  ELSE (IF \E i \in 1..p, j \in p..Len(s) : ColourCode(s, i, j) THEN <<>>
        ELSE << s[p] >>) \o Visible(s, p + 1)

HasEsc(s) == \E i \in 1..Len(s) : s[i] = ESC

\* The error outputs among the outputs whose tracebacks, joined by line
\* ends, have colour codes and no other escape sequence.
ColouredErrors(outputs) ==
  {k \in DOMAIN outputs :
     /\ outputs[k].output_type = "error"
     /\ HasEsc(Join(<<"\n">>, outputs[k].traceback))
     /\ OnlyColourCodes(Join(<<"\n">>, outputs[k].traceback))}

\* The collapsible block titled "Error: N" that holds the traceback without
\* its colour codes.
ErrorBlock(o) ==
  Chars("\n<Expandable title=\"Error: ") \o o.ename \o Chars("\">\n") \o Fence
    \o Chars("\n") \o Visible(Join(<<"\n">>, o.traceback), 1) \o Chars("\n")
    \o Fence \o Chars("\n</Expandable>\n")

\* C14 as stated: a document whose code cell has an error output with
\* colour codes in its traceback contains the block "Error: N" with the
\* traceback, and no escape character anywhere.
NoEscapeInFragment ==
  \A f \in output :
    ShowsOutputs(f) =>
      \A k \in ColouredErrors(OutputsOf(notebooks[f.by])) :
        /\ Contains(f.content, ErrorBlock(OutputsOf(notebooks[f.by])[k]))
        /\ ~HasEsc(f.content)

\* C14 (amended): such a document contains the block "Error: N" holding the
\* traceback without its colour codes, so without any escape character;
\* when no other output of the cell has an escape character in it, the
\* document has none.
NoEscapeInErrorBlock ==
  \A f \in output :
    ShowsOutputs(f) =>
      With(OutputsOf(notebooks[f.by]), LAMBDA outputs :
        \A k \in ColouredErrors(outputs) :
          /\ Contains(f.content, ErrorBlock(outputs[k]))
          /\ ~HasEsc(ErrorBlock(outputs[k]))
          /\ (\A j \in DOMAIN outputs :
                j \notin ColouredErrors(outputs)
                  => /\ ~HasEsc(Concat(outputs[j].text))
                     /\ ~HasEsc(Join(<<"\n">>, outputs[j].traceback)))
             => ~HasEsc(f.content))

\* C14, the case: the document for a cell whose one output is the error
\* ValueError with two coloured traceback lines.
NoEscapeInErrorBlockWitness ==
  \E f \in output :
    /\ ShowsOutputs(f)
    /\ Len(OutputsOf(notebooks[f.by])) = 1
    /\ ColouredErrors(OutputsOf(notebooks[f.by])) = {1}
    /\ Contains(f.content,
         Chars("\n<Expandable title=\"Error: ValueError\">\n") \o Fence
           \o Chars("\nValueError: bad\n  at line 1\n") \o Fence
           \o Chars("\n</Expandable>\n"))
    /\ ~HasEsc(f.content)

\* The block an output gives, as a list of zero or one blocks.
BlockOf(o) ==
  IF o.output_type = "stream"
  THEN IF Strip(Concat(o.text)) # <<>>
       THEN << Representation(Chars("text/plain"), Concat(o.text)) >>
       ELSE <<>>
  ELSE IF o.output_type = "error"
  THEN << Chars("\n<Expandable title=\"Error: ") \o o.ename \o Chars("\">\n") >>
  ELSE IF Represented(o, FALSE) THEN << PreferredBlock(o.data) >>
  ELSE <<>>

\* The blocks occur in s from position i on, one after the other.
RECURSIVE InOrder(_, _, _)
InOrder(s, i, blocks) ==
  IF blocks = <<>> THEN TRUE
  ELSE With(First({j \in i..Len(s) : StartsAt(s, j, Head(blocks))}, 0), LAMBDA hit :
         /\ hit # 0
         /\ InOrder(s, hit + Len(Head(blocks)), Tail(blocks)))

\* The code cells of a notebook whose source is blank.
BlankCodeCells(nb) ==
  {k \in DOMAIN nb.cells :
     nb.cells[k].cell_type = "code" /\ Strip(SourceOf(nb.cells[k])) = <<>>}

\* C15: a document whose notebook has no code cell with source text has no
\* fenced code block of the notebook's language; converter B with
\* show_output has, for every code cell, blank or not, the blocks of its
\* outputs in the order of the outputs; without show_output, and in
\* converter A, no document has an output block.
BlankCodeCellOutputs ==
  \A f \in output :
    /\ FilledCodeCells(notebooks[f.by]) = {}
         => ~Contains(f.content, Fence \o FenceLanguage(f.by))
    /\ IF ShowsOutputs(f)
       THEN \A k \in DOMAIN notebooks[f.by].cells :
              notebooks[f.by].cells[k].cell_type = "code"
                => InOrder(f.content, 1,
                           Concat([j \in DOMAIN notebooks[f.by].cells[k].outputs |->
                                     BlockOf(notebooks[f.by].cells[k].outputs[j])]))
       ELSE /\ ~Contains(f.content, Chars("<Expandable"))
            /\ ~Contains(f.content, Chars("<Frame>"))

\* C15, the case: converter B with show_output wrote the document of a
\* notebook whose code cell is blank and has a stream and an error output:
\* no code fence, the two blocks in that order.
BlankCodeCellOutputsWitness ==
  \E f \in output :
    /\ ShowsOutputs(f)
    /\ BlankCodeCells(notebooks[f.by]) # {}
    /\ FilledCodeCells(notebooks[f.by]) = {}
    /\ Len(OutputsOf(notebooks[f.by])) = 2
    /\ OutputsOf(notebooks[f.by])[1].output_type = "stream"
    /\ OutputsOf(notebooks[f.by])[2].output_type = "error"
    /\ InOrder(f.content, 1,
         << Chars("<Expandable title=\"Output\">\n") \o Fence \o Chars("\na\n"),
            Chars("<Expandable title=\"Error: ValueError\">") >>)
    /\ ~Contains(f.content, Chars("python"))

(***************************************************************************)
(* Properties: frontmatter                                                 *)
(***************************************************************************)

\* The text between the quotes of the metadata line  key: "..."  of a
\* document, <<>> when the document has no such line.
MetaValue(content, key) ==
  With(First({j \in 1..Len(content) :
                StartsAt(content, j, Chars("\n") \o key \o Chars(": \""))}, 0),
       LAMBDA hit :
    IF hit = 0 THEN <<>>
    ELSE Slice(content, hit + Len(key) + 4,
               LineEnd(content, hit + 1) - 2))

\* The description a document was given: the text of its description line
\* with the escaping of the quotes taken back.
DescriptionOf(content) ==
  Replace(MetaValue(content, Chars("description")), Chars("\\\""), Chars("\""))

\* The lines of the markdown cells, in order, each without the whitespace
\* around it.
RECURSIVE StrippedLines(_)
StrippedLines(cells) ==
  IF cells = <<>> THEN <<>>
  ELSE (IF Head(cells).cell_type = "markdown"
        THEN With(Split(SourceOf(Head(cells)), "\n"), LAMBDA lines :
               [k \in DOMAIN lines |-> Strip(lines[k])])
        ELSE <<>>)
         \o StrippedLines(Tail(cells))

\* A line that can be the description: it has text, is no heading and no
\* raw HTML, and has text other than HTML once its markup is taken away.
Qualifies(line) ==
  /\ line # <<>>
  /\ ~StartsWith(line, Chars("#"))
  /\ ~StartsWith(line, Chars("<"))
  /\ CleanDescription(line) # <<>>
  /\ ~StartsWith(CleanDescription(line), Chars("<"))

\* A text of at most 160 characters whole, a longer one as its first 157
\* characters and "...".
Shortened(desc) ==
  IF Len(desc) <= 160 THEN desc
  ELSE [k \in 1..160 |-> IF k <= 157 THEN desc[k] ELSE "."]

\* The description the lines call for: the first line that qualifies after
\* the first level-1 heading, without its markup and shortened; <<>> when
\* there is no heading or no such line.
DescriptionAfterTitle(lines) ==
  With(First({h \in DOMAIN lines : StartsWith(lines[h], Chars("# "))}, 0),
       LAMBDA title :
  With(First({k \in DOMAIN lines : k > title /\ Qualifies(lines[k])}, 0),
       LAMBDA line :
    IF title = 0 \/ line = 0 THEN <<>>
    ELSE Shortened(CleanDescription(lines[line]))))

\* C16: the description of every document converter B writes is the first
\* line after the title heading that has text and is no heading and no raw
\* HTML (its markup removed, shortened to 160 characters), and empty when
\* there is no such line; a line before the heading is never taken.
DescriptionFollowsTitle ==
  \A f \in output :
    converter[f.by] = "B" =>
      DescriptionOf(f.content)
        = DescriptionAfterTitle(StrippedLines(notebooks[f.by].cells))

\* C17: the description of every document is at most 160 characters long,
\* and it is a line of the notebook without its markup - whole when that is
\* at most 160 characters, else its first 157 characters and "...".
DescriptionAtMost160 ==
  \A f \in output :
    DescriptionOf(f.content) # <<>> =>
      /\ Len(DescriptionOf(f.content)) <= 160
      /\ \E k \in DOMAIN StrippedLines(notebooks[f.by].cells) :
           DescriptionOf(f.content)
             = Shortened(CleanDescription(StrippedLines(notebooks[f.by].cells)[k]))

\* C17, the case: a document whose description is the first 157
\* characters of the line of 161 characters and "...".
DescriptionAtMost160Witness ==
  \E f \in output :
    /\ \E k \in DOMAIN notebooks[f.by].cells :
         Contains(SourceOf(notebooks[f.by].cells[k]), Line160 \o Chars("Z\n"))
    /\ DescriptionOf(f.content) = SubSeq(Line160, 1, 157) \o Chars("...")
    /\ Len(DescriptionOf(f.content)) = 160

\* A document whose description is a line of exactly 160 characters, which
\* was longer with its link markup.
DescriptionWholeReached ==
  \E f \in output : DescriptionOf(f.content) = Line160

\* Every double quote of the value stands after a backslash.
QuotesAreEscaped(value) ==
  \A i \in 1..Len(value) : value[i] = "\"" => (i > 1 /\ value[i - 1] = "\\")

\* C18: in every document, the value of the title line and the value of
\* the description line have no double quote that is not escaped.
FrontmatterQuotesEscaped ==
  \A f \in output :
    /\ QuotesAreEscaped(MetaValue(f.content, Chars("title")))
    /\ QuotesAreEscaped(MetaValue(f.content, Chars("description")))

(***************************************************************************)
(* Properties: order of the document                                       *)
(***************************************************************************)

\* The fragments the cells of worker w's notebook give from cell k on, one
\* text for each cell (<<>> for a cell that gives nothing), when the
\* skip_first_h1 flag is skip before cell k.
RECURSIVE FragmentsFrom(_, _, _)
FragmentsFrom(w, k, skip) ==
  IF k > Len(notebooks[w].cells) THEN <<>>
  ELSE IF converter[w] = "A"
  THEN With(CellStepA(notebooks[w].cells[k], skip, LanguageOf(notebooks[w].metadata),
                      notebooks[w].path, SourceTree), LAMBDA st :
         << Join(<<"\n">>, st.parts) >> \o FragmentsFrom(w, k + 1, st.skip))
  ELSE With(CellStepB(notebooks[w].cells[k], skip, show_output[w]), LAMBDA st :
         << Concat(st.parts) >> \o FragmentsFrom(w, k + 1, st.skip))

\* The line is a metadata line  key: "value".
IsMetaLine(line) ==
  \E key \in {Chars("title"), Chars("description"), Chars("icon")} :
    /\ StartsWith(line, key \o Chars(": \""))
    /\ line[Len(line)] = "\""

\* The position after the frontmatter block of a document: the document
\* starts with a line "---", metadata lines follow, and the next line
\* "---" ends the block.  0 when the document does not start like this.
FrontmatterEnd(content) ==
  With(First({j \in 1..Len(content) : StartsAt(content, j, Chars("\n---\n"))}, 0),
       LAMBDA close :
    IF StartsWith(content, Chars("---\n")) /\ close # 0
    THEN With(Split(Slice(content, 5, close - 1), "\n"), LAMBDA lines :
           IF \A k \in DOMAIN lines : IsMetaLine(lines[k]) THEN close + 5 ELSE 0)
    ELSE 0)

\* C19: every document starts with the frontmatter block between two "---"
\* lines, and below the block the fragments of the cells that give one
\* follow each other in the order of the cells.
FragmentsInCellOrder ==
  \A f \in output :
    /\ FrontmatterEnd(f.content) # 0
    /\ InOrder(f.content, FrontmatterEnd(f.content),
               SelectSeq(FragmentsFrom(f.by, 1, TRUE), LAMBDA x : x # <<>>))

\* C19, the case: a document of a notebook with a markdown cell before a
\* code cell: the frontmatter, the text of the first, the code block of the
\* second.
FragmentsInCellOrderWitness ==
  \E f \in output :
    /\ Len(notebooks[f.by].cells) = 2
    /\ notebooks[f.by].cells[1].cell_type = "markdown"
    /\ notebooks[f.by].cells[2].cell_type = "code"
    /\ Len(SelectSeq(FragmentsFrom(f.by, 1, TRUE), LAMBDA x : x # <<>>)) = 2
    /\ InOrder(f.content, 1,
               << Chars("---\ntitle: \""), Chars("\n---\n"), Chars("## Part\ntext"),
                  Fence \o FenceLanguage(f.by) \o Chars("\nx = {1}\n") >>)

(***************************************************************************)
(* Properties: notebook executor                                           *)
(***************************************************************************)

\* The records of manifest m whose notebook is key.
RecordsOf(m, key) == {k \in DOMAIN m.notebooks : m.notebooks[k].s3_key = key}

\* The three counters of manifest m together.
Counted(m) == m.success + m.cell_error + m.failed

PartialSuccessReached ==
  /\ exec_pc = "exited"
  /\ exec_exit = 0
  /\ \E k \in DOMAIN manifest.notebooks : manifest.notebooks[k].status = "failed"
  /\ \E k \in DOMAIN manifest.notebooks : manifest.notebooks[k].status = "cell_error"
  /\ ~\E k \in DOMAIN manifest.notebooks : manifest.notebooks[k].status = "success"

\* C29: after each iteration of the loop the three counters sum to the
\* number of records, the records are those of the notebooks handled so
\* far, one each, no record has the status pending, and in an uploaded
\* manifest the counters sum to total and every listed notebook has exactly
\* one record.
ManifestCountersConsistent ==
  /\ exec_pc \in {"loop", "summary", "exited"} =>
       /\ Counted(manifest) = Len(manifest.notebooks)
       /\ Len(manifest.notebooks) = exec_index - 1
       /\ \A k \in DOMAIN manifest.notebooks :
            /\ manifest.notebooks[k].s3_key = notebook_keys[k]
            /\ manifest.notebooks[k].status \in {"success", "cell_error", "failed"}
       /\ \A k \in 1..(exec_index - 1) :
            Cardinality(RecordsOf(manifest, notebook_keys[k])) = 1
  /\ \A u \in DOMAIN uploaded :
       /\ Counted(uploaded[u]) = uploaded[u].total
       /\ uploaded[u].total = Len(notebook_keys)
       /\ \A k \in DOMAIN notebook_keys :
            Cardinality(RecordsOf(uploaded[u], notebook_keys[k])) = 1

\* C29, the case: a manifest was uploaded after a loop over three notebooks
\* that ended with the three statuses.
ManifestCountersConsistentWitness ==
  /\ uploaded # <<>>
  /\ uploaded[1].total = 3
  /\ uploaded[1].success = 1
  /\ uploaded[1].cell_error = 1
  /\ uploaded[1].failed = 1

(***************************************************************************)
(* Properties: navigation                                                  *)
(***************************************************************************)

\* The pages of the tutorials tab of a configuration that has this tab.
TutorialsPages(config) == config.tabs[TutorialsTabAt(config)].pages

\* The group paths of NOTEBOOK_LOCATIONS whose group exists in the
\* tutorials tab.
ExistingGroups(config) ==
  { path \in AllGroupPaths : find_group(TutorialsPages(config), path).found }

\* The pages of the group of that path.
GroupPages(config, path) ==
  With(find_group(TutorialsPages(config), path), LAMBDA group :
    TargetPages(group.pages, group.at))

\* An entry that is a page string starting with the notebook prefix.
IsNotebookEntry(p) == IsPage(p) /\ StartsWith(p.page, NotebookPagePrefix)

\* How often the page path stands in pages.
TimesListed(pages, path) ==
  Cardinality({k \in DOMAIN pages : pages[k] = Page(path)})

\* C27: after update_docs_json, in every group of NOTEBOOK_LOCATIONS that
\* exists in the tutorials tab the entries that start with
\* tutorials/example-notebooks/ are exactly the discovered notebooks mapped
\* to that group, each listed once, whatever the group held before; and a
\* second run with the same inputs changes nothing.
NavigationInSync ==
  /\ nav_writes >= 1 =>
       \A path \in ExistingGroups(docs_json) :
         With(GroupPages(docs_json, path), LAMBDA pages :
           /\ \A k \in DOMAIN pages :
                IsNotebookEntry(pages[k])
                  => pages[k].page \in NotebooksByLocation(mdx_names, path)
           /\ \A page_path \in NotebooksByLocation(mdx_names, path) :
                TimesListed(pages, page_path) = 1)
  /\ nav_runs = 2 => docs_json = nav_before

\* pages without the notebook entries, at every depth, each entry reduced
\* to its page string or its group name and pages.
RECURSIVE HandWritten(_)
HandWritten(pages) ==
  With(SelectSeq(pages, LAMBDA p : ~IsNotebookEntry(p)), LAMBDA kept :
    [k \in 1..Len(kept) |->
       [page |-> kept[k].page, group |-> kept[k].group,
        pages |-> HandWritten(kept[k].pages)]])

\* C28: update_docs_json never removes or reorders an entry that is not a
\* notebook path: in every group the hand-written page strings and the
\* group objects are those of before, in their order; the other tabs are
\* untouched; and without the tutorials tab docs.json is not written.
HandWrittenEntriesKept ==
  nav_runs >= 1 =>
    /\ Len(docs_json.tabs) = Len(nav_before.tabs)
    /\ \A k \in DOMAIN docs_json.tabs :
         /\ docs_json.tabs[k].tab = nav_before.tabs[k].tab
         /\ HandWritten(docs_json.tabs[k].pages) = HandWritten(nav_before.tabs[k].pages)
         /\ k # TutorialsTabAt(nav_before) => docs_json.tabs[k] = nav_before.tabs[k]
    /\ TutorialsTabAt(nav_before) = 0 => (nav_writes = 0 /\ docs_json = nav_before)

\* C28, the case: the group held a hand-written page, the page of a
\* notebook that exists no more and a hand-written group; the update has
\* removed the stale page and appended the page of a discovered notebook.
HandWrittenEntriesKeptWitness ==
  /\ nav_runs = 1
  /\ nav_writes = 1
  /\ nav_before = SampleDocs(TutorialsTab,
       << Page(Chars("tutorials/overview")),
          Page(PagePath(Chars("retired-notebook"))),
          Group(Chars("Notes"), << Page(Chars("notes/faq")) >>) >>)
  /\ GroupPages(docs_json, << Chars("Getting Started") >>) =
       << Page(Chars("tutorials/overview")),
          Group(Chars("Notes"), << Page(Chars("notes/faq")) >>),
          Page(PagePath(Chars("part-1-loading-data"))) >>

\* A run without the tutorials tab has left docs.json alone.
MissingTabReached ==
  /\ nav_runs = 1
  /\ mdx_names # {}
  /\ TutorialsTabAt(nav_before) = 0

(***************************************************************************)
(* Properties: batch conversion                                            *)
(***************************************************************************)

\* The batch has ended and nothing has been cleaned up since.
BatchEnded == batch_pc = "exited" /\ cleanup_runs = 0

\* The position of a path in the loop, 0 when the loop does not hold it.
PositionOf(path) == First({k \in 1..Len(batch) : batch[k] = path}, 0)

\* The loop came to the path: it converted it, skipped it, or ended at it.
CameTo(path) == PositionOf(path) # 0 /\ PositionOf(path) <= batch_index

\* The output directory holds the document of the notebook at the path.
HasDocument(path) ==
  \E d \in output :
    /\ d.dir = DocumentOf(batch_mode, path).dir
    /\ d.name = DocumentOf(batch_mode, path).name

\* A message of the kind was printed about the path.
Reported(kind, path) ==
  \E k \in 1..Len(reported) : reported[k].kind = kind /\ reported[k].path = path

\* The converted list holds the notebook at the path.
Converted(path) ==
  \E k \in 1..Len(converted) : converted[k].notebook = path

\* The notebooks of the source directory that are not excluded.
Remaining == {f \in tree : ~should_exclude_notebook(f.path)}

\* C21: at the end of a batch, a notebook without cells that the loop came
\* to has no output document, is recorded as skipped and neither as
\* converted nor as failed, the loop has run to its end, and the exit status
\* is 0 when another notebook was converted.
EmptyNotebookSkipped ==
  BatchEnded =>
    \A f \in Remaining :
      (f.parseable /\ f.cells = <<>> /\ CameTo(f.path)) =>
        /\ ~HasDocument(f.path)
        /\ Reported("no cells", f.path)
        /\ ~Converted(f.path)
        /\ ~Reported("error", f.path)
        /\ ~Reported("traceback", f.path)
        /\ batch_index > Len(batch)
        /\ converted # <<>> => batch_exit = 0

\* C22: at the end of a batch over several notebooks, a notebook whose file
\* is not parseable is reported and has no document, and every other
\* notebook that is not excluded has been dealt with by the loop: it has its
\* document when it has cells.
MalformedNotebookSkipped ==
  (BatchEnded /\ batch_mode \in {"A", "B directory"}) =>
    \A f \in Remaining :
      ~f.parseable =>
        /\ Reported("error", f.path) \/ Reported("traceback", f.path)
        /\ ~HasDocument(f.path)
        /\ \A g \in Remaining :
             g.parseable =>
               /\ CameTo(g.path)
               /\ g.cells # <<>> => HasDocument(g.path)

\* C23: no worker ever converts an excluded notebook; at the end of a run
\* over a source directory with an excluded notebook, that notebook has no
\* document and is not in the converted list, and the loop came to every
\* other notebook.
ExcludedNeverConverted ==
  /\ \A w \in Workers :
       notebooks[w].path = <<>> \/ ~should_exclude_notebook(notebooks[w].path)
  /\ BatchEnded =>
       \A f \in tree \ Remaining :
         /\ ~HasDocument(f.path)
         /\ ~Converted(f.path)
         /\ batch # <<>> => \A g \in Remaining : CameTo(g.path)

(***************************************************************************)
(* Properties: cleanup of orphaned pages                                   *)
(***************************************************************************)

\* C25: the document converter A wrote for a notebook that still exists has
\* the stem get_expected_mdx_names expects for that notebook, and no cleanup
\* removes it.
ProducedNeverOrphaned ==
  batch_mode = "A" =>
    \A k \in 1..Len(converted) :
      converted[k].notebook \notin deleted =>
        /\ Stem(<< converted[k].document.name >>) \in
             get_expected_mdx_names({FileAt(converted[k].notebook)}, ExcludedPrefix)
        /\ [kind |-> "mdx", name |-> converted[k].document.name] \notin removed

\* The names of the images converter A relocates for a notebook.
ImagesOf(f) ==
  UNION { { CellStepA(f.cells[k], TRUE, LanguageOf(f.metadata), f.path,
                      SourceTree).writes[i].name :
              i \in 1..Len(CellStepA(f.cells[k], TRUE, LanguageOf(f.metadata),
                                     f.path, SourceTree).writes) } :
          k \in 1..Len(f.cells) }

\* The page of the notebook is among the removed files.
PageRemoved(f) == [kind |-> "mdx", name |-> OutputNameA(f.path)] \in removed

\* C26: every MDX file the cleanup removed had an orphaned name, every image
\* it removed was relocated for a notebook whose page it removed, and no
\* image of a notebook that still exists and keeps its page is removed.
CleanupRemovesOnlyOrphans ==
  \A r \in removed :
    /\ r.kind = "mdx" =>
         Stem(<< r.name >>) \notin
           get_expected_mdx_names(SourceNotebooks, ExcludedPrefix)
    /\ r.kind = "image" =>
         /\ \E f \in tree : PageRemoved(f) /\ r.name \in ImagesOf(f)
         /\ \A f \in SourceNotebooks : ~PageRemoved(f) => r.name \notin ImagesOf(f)

====
